---- MODULE Spec2Model ----
(***************************************************************************)
(* Model of the Pittsburgh school job scraper: the classifier of           *)
(* scraper.py, the identity key and diff of run_automated.py, the run      *)
(* state file .job_cache.json, and run_scraper as a sequential process.    *)
(*                                                                         *)
(* Python strings are TLA+ strings (TLC evaluates Len, SubSeq, Head, Tail  *)
(* and \o on them).  A job is a Python dict: a function from its keys to   *)
(* strings, so an absent optional field is a key outside DOMAIN job.       *)
(***************************************************************************)
EXTENDS Integers, Sequences, FiniteSets, TLC

VARIABLES
    pc,             \* position of run_scraper (or of a function harness)
    cache,          \* content of .job_cache.json
    school,         \* index of the next district scrape_all_districts visits
    all_jobs,       \* run_scraper: all_jobs
    filtered_jobs,  \* run_scraper: filtered_jobs (get_new_jobs: current_jobs)
    previous_ids,   \* run_scraper: previous_ids
    new_jobs,       \* run_scraper: new_jobs
    results,        \* run_scraper: whether send_notifications ran, and its results
    loads,          \* history: calls of load_previous_jobs in this run
    saves,          \* history: calls of save_current_jobs in this run
    prev_done,      \* history: some earlier run has completed
    prev_keys,      \* history: keys of the last completed run's filtered set
    prev2_keys,     \* history: keys of the completed run before that one
    job,            \* classifier harness: the job under classification
    verdict,        \* classifier harness: the three predicates' answers
    config,         \* scrape_all_districts: the configuration it is called with
    district_jobs,  \* scrape_all_districts: jobs, what scrape_district returned last
    web,            \* what each portal url serves during the run
    page,           \* adapter harness: the portal page the adapter is called on
    candidates,     \* adapter harness: the adapter's local jobs before deduplication
    db,             \* cloud runner: the rows of the Supabase table jobs
    db_before,      \* history: the rows of the table when upsert_jobs was last called
    sent,           \* history: keys of the postings a delivered notification has listed
    unsent          \* history: keys listed only by notifications that were not delivered

\* the variables that only the scraping harnesses and the cloud runner use
portalVars == <<config, district_jobs, web, page, candidates, db, db_before>>

\* the history of the notifications of the local runner
ledger == <<sent, unsent>>

siteVars == <<portalVars, ledger>>

vars == <<pc, cache, school, all_jobs, filtered_jobs, previous_ids, new_jobs,
          results, loads, saves, prev_done, prev_keys, prev2_keys, job, verdict, siteVars>>

runVars == <<cache, school, all_jobs, filtered_jobs, previous_ids, new_jobs,
             results, loads, saves, prev_done, prev_keys, prev2_keys, siteVars>>

(***************************************************************************)
(* Python string operations                                                *)
(***************************************************************************)

UpperLetters == "ABCDEFGHIJKLMNOPQRSTUVWXYZ"

LowerLetters == "abcdefghijklmnopqrstuvwxyz"

\* the lower-case letter of each upper-case ASCII letter
LowerOf ==
    [c \in {SubSeq(UpperLetters, i, i) : i \in 1..Len(UpperLetters)} |->
        LET i == CHOOSE k \in 1..Len(UpperLetters) : SubSeq(UpperLetters, k, k) = c
        IN  SubSeq(LowerLetters, i, i)]

\* str.lower() on one character (ASCII letters; every other character is kept)
LowerChar(c) ==
    IF c \in DOMAIN LowerOf THEN LowerOf[c] ELSE c

RECURSIVE Lower(_)
\* str.lower()
Lower(s) ==
    IF s = "" THEN "" ELSE LowerChar(Head(s)) \o Lower(Tail(s))

\* Python's `kw in s` on strings: kw is a contiguous substring of s
Contains(s, kw) ==
    \E i \in 0..(Len(s) - Len(kw)) : SubSeq(s, i + 1, i + Len(kw)) = kw

\* any(kw in s for kw in keywords)
AnyKeywordIn(keywords, s) ==
    \E i \in 1..Len(keywords) : Contains(s, keywords[i])

\* dict.get(key, '')
Get(d, key) ==
    IF key \in DOMAIN d THEN d[key] ELSE ""

(***************************************************************************)
(* scraper.py: keyword tables                                              *)
(***************************************************************************)

SOCIAL_STUDIES_KEYWORDS ==
    << "social studies", "history", "civics", "government", "economics",
       "geography", "political science", "world cultures", "american studies",
       "global studies", "us history", "world history", "american history",
       "ap history", "ap government", "ap economics",
       "humanities", "sociology", "psychology", "current events" >>

SECONDARY_KEYWORDS ==
    << "middle school", "high school", "secondary", "junior high",
       "6th grade", "7th grade", "8th grade",
       "9th grade", "10th grade", "11th grade", "12th grade",
       "grade 6", "grade 7", "grade 8",
       "grade 9", "grade 10", "grade 11", "grade 12",
       "6-12", "7-12", "6-8", "9-12" >>

EXCLUDE_KEYWORDS ==
    << "elementary school", "primary school", "kindergarten", "pre-k", "prek",
       "preschool",
       "1st grade", "2nd grade", "3rd grade", "4th grade", "5th grade",
       "grade 1", "grade 2", "grade 3", "grade 4", "grade 5",
       "k-5", "k-6", "k-4", "k-3" >>

exclude_types ==
    << "aide", "paraprofessional", "assistant", "pca",
       "custodian", "maintenance", "cafeteria", "food service",
       "secretary", "clerical", "bus driver", "transportation",
       "nurse", "support staff" >>

(***************************************************************************)
(* scraper.py: the classifier                                              *)
(***************************************************************************)

\* the text is_social_studies_job searches: f"{title} {position_type} {location} {category}"
SubjectText(j) ==
    Lower(Get(j, "title")) \o " " \o Lower(Get(j, "position_type")) \o " "
        \o Lower(Get(j, "location")) \o " " \o Lower(Get(j, "category"))

\* the mutant: the search_term clause is left out
is_social_studies_job_no_search_term(j) ==
    AnyKeywordIn(SOCIAL_STUDIES_KEYWORDS, SubjectText(j))

is_social_studies_job(j) ==
    LET search_term == Lower(Get(j, "search_term"))
    IN  IF AnyKeywordIn(SOCIAL_STUDIES_KEYWORDS, SubjectText(j))
        THEN TRUE
        ELSE IF search_term # "" /\ AnyKeywordIn(SOCIAL_STUDIES_KEYWORDS, search_term)
             THEN TRUE
             ELSE FALSE

\* the text is_teaching_position searches: title + ' ' + position_type
PositionText(j) ==
    Lower(Get(j, "title")) \o " " \o Lower(Get(j, "position_type"))

\* the mutant: the rescue by "teacher" / "instructor" is left out
is_teaching_position_no_rescue(j) ==
    ~ AnyKeywordIn(exclude_types, PositionText(j))

is_teaching_position(j) ==
    LET combined == PositionText(j)
    IN  IF AnyKeywordIn(exclude_types, combined)
        THEN IF Contains(combined, "teacher") \/ Contains(combined, "instructor")
             THEN TRUE
             ELSE FALSE
        ELSE TRUE

\* the text is_secondary_level searches: title + ' ' + location
GradeText(j) ==
    Lower(Get(j, "title")) \o " " \o Lower(Get(j, "location"))

\* the mutant: a job with no grade marker at all is rejected
is_secondary_level_no_default(j) ==
    LET combined == GradeText(j)
    IN  IF AnyKeywordIn(EXCLUDE_KEYWORDS, combined)
        THEN FALSE
        ELSE AnyKeywordIn(SECONDARY_KEYWORDS, combined)

is_secondary_level(j) ==
    LET combined == GradeText(j)
    IN  IF AnyKeywordIn(EXCLUDE_KEYWORDS, combined)
        THEN FALSE
        ELSE IF AnyKeywordIn(SECONDARY_KEYWORDS, combined)
             THEN TRUE
             ELSE TRUE

RECURSIVE filter_loop_no_grade(_, _)
filter_loop_no_grade(jobs, filtered) ==
    IF jobs = <<>> THEN filtered
    ELSE LET j == Head(jobs)
         IN  IF ~ is_social_studies_job(j) THEN filter_loop_no_grade(Tail(jobs), filtered)
             ELSE IF ~ is_teaching_position(j) THEN filter_loop_no_grade(Tail(jobs), filtered)
             ELSE filter_loop_no_grade(Tail(jobs), Append(filtered, j))

\* the mutant: the grade-level check is left out of the loop
filter_jobs_no_grade(jobs, social_studies_only) ==
    IF ~ social_studies_only THEN jobs ELSE filter_loop_no_grade(jobs, <<>>)

RECURSIVE filter_loop(_, _)
\* the for loop of filter_jobs: each `continue` skips the job, the rest are appended
filter_loop(jobs, filtered) ==
    IF jobs = <<>> THEN filtered
    ELSE LET j == Head(jobs)
         IN  IF ~ is_social_studies_job(j) THEN filter_loop(Tail(jobs), filtered)
             ELSE IF ~ is_teaching_position(j) THEN filter_loop(Tail(jobs), filtered)
             ELSE IF ~ is_secondary_level(j) THEN filter_loop(Tail(jobs), filtered)
             ELSE filter_loop(Tail(jobs), Append(filtered, j))

filter_jobs(jobs, social_studies_only) ==
    IF ~ social_studies_only THEN jobs ELSE filter_loop(jobs, <<>>)

(***************************************************************************)
(* The identity key, at each place the code computes it                    *)
(***************************************************************************)

\* run_automated.py, save_current_jobs: f"{job['district']}|{job['title']}"
save_job_id(j) ==
    j["district"] \o "|" \o j["title"]

\* the mutant: the key is district and title with nothing between them
diff_job_id_no_separator(j) ==
    j["district"] \o j["title"]

\* run_automated.py, get_new_jobs: f"{job['district']}|{job['title']}"
diff_job_id(j) ==
    j["district"] \o "|" \o j["title"]

\* run_automated_cloud.py, get_existing_job_ids: f"{job['district']}|{job['title']}"
existing_job_id(row) ==
    row["district"] \o "|" \o row["title"]

\* run_automated_cloud.py, mark_missing_jobs_inactive: job_key
missing_job_key(row) ==
    row["district"] \o "|" \o row["title"]

\* the mutant: the cloud runner lower-cases the key
current_job_key_lowercase(j) ==
    Lower(j["district"] \o "|" \o j["title"])

\* run_automated_cloud.py, run_scraper: the elements of current_job_keys
current_job_key(j) ==
    j["district"] \o "|" \o j["title"]

(***************************************************************************)
(* run_automated.py: get_new_jobs                                          *)
(***************************************************************************)

RECURSIVE get_new_jobs_loop(_, _, _)
get_new_jobs_loop(current_jobs, previous, acc) ==
    IF current_jobs = <<>> THEN acc
    ELSE LET j == Head(current_jobs)
             job_id == diff_job_id(j)
         IN  get_new_jobs_loop(Tail(current_jobs), previous,
                               IF job_id \notin previous THEN Append(acc, j) ELSE acc)

RECURSIVE get_new_jobs_first_only(_, _)
\* the mutant: a key is reported once only, later records with it are dropped
get_new_jobs_first_only(current_jobs, previous) ==
    IF current_jobs = <<>> THEN <<>>
    ELSE LET j == Head(current_jobs)
         IN  IF diff_job_id(j) \in previous
             THEN get_new_jobs_first_only(Tail(current_jobs), previous)
             ELSE <<j>> \o get_new_jobs_first_only(Tail(current_jobs),
                                                   previous \cup {diff_job_id(j)})

get_new_jobs(current_jobs, previous) ==
    get_new_jobs_loop(current_jobs, previous, <<>>)

(***************************************************************************)
(* The run state file .job_cache.json                                      *)
(*                                                                         *)
(* A file is absent, holds text json.load rejects, or holds a JSON         *)
(* document.  JSON values are tagged: null, num, str, list, obj.           *)
(***************************************************************************)

JNull == [t |-> "null"]

JNum(n) == [t |-> "num", v |-> n]

JStr(s) == [t |-> "str", v |-> s]

JList(seq) == [t |-> "list", v |-> seq]

JObj(f) == [t |-> "obj", v |-> f]

FileAbsent == [kind |-> "absent"]

FileInvalid == [kind |-> "invalid"]

FileJson(doc) == [kind |-> "json", doc |-> doc]

\* Python's set(x) on a decoded JSON value; ok = FALSE is a TypeError
\* (the arrays enumerated hold strings, arrays and objects only)
PySet(x) ==
    CASE x.t = "list" ->
             IF \A i \in 1..Len(x.v) : x.v[i].t = "str"
             THEN [ok |-> TRUE, v |-> {x.v[i].v : i \in 1..Len(x.v)}]
             ELSE [ok |-> FALSE]
      [] x.t = "str" -> [ok |-> TRUE, v |-> {SubSeq(x.v, i, i) : i \in 1..Len(x.v)}]
      [] x.t = "obj" -> [ok |-> TRUE, v |-> DOMAIN x.v]
      [] OTHER -> [ok |-> FALSE]

\* the mutant: the keys read back are lower-cased
load_previous_jobs_lowercase(file) ==
    IF file.kind = "absent" THEN [raised |-> FALSE, ids |-> {}]
    ELSE IF file.kind = "invalid" THEN [raised |-> FALSE, ids |-> {}]
    ELSE IF file.doc.t # "obj" THEN [raised |-> FALSE, ids |-> {}]
    ELSE LET data == file.doc.v
             s == PySet(IF "job_ids" \in DOMAIN data THEN data["job_ids"] ELSE JList(<<>>))
         IN  IF s.ok THEN [raised |-> FALSE, ids |-> {Lower(k) : k \in s.v}]
             ELSE [raised |-> FALSE, ids |-> {}]

\* load_previous_jobs: the set it returns, and whether an exception leaves it
load_previous_jobs(file) ==
    IF file.kind = "absent" THEN [raised |-> FALSE, ids |-> {}]
    ELSE IF file.kind = "invalid" THEN [raised |-> FALSE, ids |-> {}]
    ELSE IF file.doc.t # "obj" THEN [raised |-> FALSE, ids |-> {}]
    ELSE LET data == file.doc.v
             s == PySet(IF "job_ids" \in DOMAIN data THEN data["job_ids"] ELSE JList(<<>>))
         IN  IF s.ok THEN [raised |-> FALSE, ids |-> s.v] ELSE [raised |-> FALSE, ids |-> {}]

RECURSIVE job_ids_of(_, _)
\* the loop of save_current_jobs building job_ids
job_ids_of(jobs, job_ids) ==
    IF jobs = <<>> THEN job_ids
    ELSE job_ids_of(Tail(jobs), Append(job_ids, save_job_id(Head(jobs))))

\* datetime.now().isoformat(): nothing in the program reads last_run back
LastRunStamp == "now"

\* json.dump of the data dict: the document written to the file
CacheDocument(job_ids, job_count) ==
    JObj([last_run |-> JStr(LastRunStamp),
          job_count |-> JNum(job_count),
          job_ids |-> JList([i \in 1..Len(job_ids) |-> JStr(job_ids[i])])])

\* the list of strings under job_ids, when the file holds one (else <<>>)
StoredIds(file) ==
    IF /\ file.kind = "json"
       /\ file.doc.t = "obj"
       /\ "job_ids" \in DOMAIN file.doc.v
       /\ file.doc.v["job_ids"].t = "list"
       /\ \A i \in 1..Len(file.doc.v["job_ids"].v) : file.doc.v["job_ids"].v[i].t = "str"
    THEN [i \in 1..Len(file.doc.v["job_ids"].v) |-> file.doc.v["job_ids"].v[i].v]
    ELSE <<>>

\* the mutant: the new ids are merged into the ids already stored
save_current_jobs_merge(jobs, old) ==
    LET ids == StoredIds(old) \o job_ids_of(jobs, <<>>)
    IN  FileJson(CacheDocument(ids, Len(jobs)))

\* save_current_jobs: the file it leaves (open(..., 'w') truncates: old is not read)
save_current_jobs(jobs, old) ==
    FileJson(CacheDocument(job_ids_of(jobs, <<>>), Len(jobs)))

(***************************************************************************)
(* Classifier harness: one job drawn from a bounded set, classified once   *)
(***************************************************************************)

\* how many entries of TitleWords the titles are built from
NumTitleWords == 11

TitleWords ==
    << "Social Studies Teacher", "History", "Teacher's Aide", "Instructional Assistant",
       "Instructor", "Grade 10", "Grade 1", "High School", "Elementary School",
       "Math", "School Nurse", "7th Grade", "Kindergarten" >>

Words == {TitleWords[i] : i \in 1..NumTitleWords}

\* titles of one or two words, and the titles the specification's scenarios name
\* (the dash of "Teacher's Aide - Social Studies Teacher II" is written in ASCII)
ClassifierTitles ==
    Words \cup {a \o " " \o b : a \in Words, b \in Words}
          \cup {"Teacher's Aide - Social Studies Teacher II", "SOCIAL STUDIES"}

Absent == "<absent>"

\* a dict with the title and those optional fields that are not Absent
MakeJob(title, position_type, location, category, search_term) ==
    LET given == [title |-> title, position_type |-> position_type,
                  location |-> location, category |-> category,
                  search_term |-> search_term]
    IN  [f \in {g \in DOMAIN given : given[g] # Absent} |-> given[f]]

ClassifierJobs ==
    {MakeJob(t, p, l, c, s) :
        t \in ClassifierTitles,
        p \in {Absent, "Paraprofessional", "Teacher"},
        l \in {Absent, "Middle School", "Primary School"},
        c \in {Absent, "Humanities"},
        s \in {Absent, "civics", "Art History", "math"}}

NoVerdict == [subject |-> FALSE, position |-> FALSE, grade |-> FALSE]

NoJob == [title |-> ""]

\* send_notifications has not been called
NotNotified == [called |-> FALSE, email |-> FALSE, push |-> FALSE]

\* the variables of run_scraper that a function harness does not use
RunIdle ==
    /\ cache = FileAbsent
    /\ school = 0
    /\ results = NotNotified
    /\ loads = 0
    /\ saves = 0
    /\ prev_done = FALSE
    /\ prev_keys = {}
    /\ prev2_keys = {}

ClassifierIdle ==
    /\ job = NoJob
    /\ verdict = NoVerdict

NoPage == [portal |-> "none"]

\* the variables of the scraping harnesses and of the cloud runner, unused
SiteIdle ==
    /\ config = [schools |-> <<>>]
    /\ district_jobs = <<>>
    /\ web = <<>>
    /\ page = NoPage
    /\ candidates = <<>>
    /\ db = <<>>
    /\ db_before = <<>>
    /\ sent = {}
    /\ unsent = {}

otherVars == <<cache, school, results, loads, saves, prev_done, prev_keys, prev2_keys,
               job, verdict, siteVars>>

InitClassify ==
    /\ pc = "input"
    /\ job \in ClassifierJobs
    /\ verdict = NoVerdict
    /\ all_jobs = <<>>
    /\ filtered_jobs = <<>>
    /\ previous_ids = {}
    /\ new_jobs = <<>>
    /\ RunIdle
    /\ SiteIdle

\* the three predicates applied to the job, as filter_jobs applies them
Classify ==
    /\ pc = "input"
    /\ verdict' = [subject |-> is_social_studies_job(job),
                   position |-> is_teaching_position(job),
                   grade |-> is_secondary_level(job)]
    /\ pc' = "classified"
    /\ UNCHANGED <<job, runVars>>

NextClassify == Classify

SpecClassify == InitClassify /\ [][NextClassify]_vars

(***************************************************************************)
(* Claims about the classifier (under SpecClassify)                        *)
(***************************************************************************)

\* some entry of keywords is a case-insensitive substring of text
MentionsAny(keywords, text) ==
    LET lowered == Lower(text)
    IN  \E i \in 1..Len(keywords) : Contains(lowered, Lower(keywords[i]))

\* the fields the subject predicate reads, absent ones as empty text
SubjectFields(j) ==
    Get(j, "title") \o " " \o Get(j, "position_type") \o " "
        \o Get(j, "location") \o " " \o Get(j, "category")

SearchTermIsKeyword(j) ==
    \E i \in 1..Len(SOCIAL_STUDIES_KEYWORDS) :
        Lower(Get(j, "search_term")) = SOCIAL_STUDIES_KEYWORDS[i]

\* C7 as stated: the subject predicate is true if and only if a subject keyword
\* is a case-insensitive substring of title, position_type, location and
\* category put together, or the search_term itself is a subject keyword.
C7_SubjectIffFieldsOrSearchTermIsKeyword ==
    pc = "classified" =>
        (verdict.subject <=>
            (MentionsAny(SOCIAL_STUDIES_KEYWORDS, SubjectFields(job))
                \/ SearchTermIsKeyword(job)))

\* C7 amended: the subject predicate is true if and only if a subject keyword
\* is a case-insensitive substring of title, position_type, location and
\* category put together, or of the search_term (which need not equal it).
C7_SubjectIffFieldsOrSearchTermMentionsKeyword ==
    pc = "classified" =>
        (verdict.subject <=>
            (MentionsAny(SOCIAL_STUDIES_KEYWORDS, SubjectFields(job))
                \/ MentionsAny(SOCIAL_STUDIES_KEYWORDS, Get(job, "search_term"))))

\* a job accepted on its search_term alone, the term not being a keyword itself
C7_Witness ==
    /\ pc = "classified"
    /\ verdict.subject
    /\ ~ MentionsAny(SOCIAL_STUDIES_KEYWORDS, SubjectFields(job))
    /\ "search_term" \in DOMAIN job
    /\ ~ SearchTermIsKeyword(job)

PositionFields(j) ==
    Get(j, "title") \o " " \o Get(j, "position_type")

RescueTitle == "Teacher's Aide - Social Studies Teacher II"

\* C8: the position-type predicate is false exactly when title + position_type
\* mentions an excluded role and neither "teacher" nor "instructor"; the job
\* titled "Teacher's Aide - Social Studies Teacher II" passes.
C8_PositionFalseIffExcludedWithoutRescue ==
    pc = "classified" =>
        /\ (~ verdict.position) <=>
              /\ MentionsAny(exclude_types, PositionFields(job))
              /\ ~ MentionsAny(<<"teacher", "instructor">>, PositionFields(job))
        /\ Get(job, "title") = RescueTitle => verdict.position

\* the rescue title, which mentions "aide", has been classified and passes
C8_Witness ==
    /\ pc = "classified"
    /\ Get(job, "title") = RescueTitle
    /\ MentionsAny(<<"aide">>, PositionFields(job))
    /\ verdict.position

GradeFields(j) ==
    Get(j, "title") \o " " \o Get(j, "location")

\* C9 as stated: the grade-level predicate is true for every job whose
\* title + location mentions an entry of SECONDARY_KEYWORDS.
C9_SecondaryKeywordPasses ==
    pc = "classified" =>
        (MentionsAny(SECONDARY_KEYWORDS, GradeFields(job)) => verdict.grade)

\* C10: the grade-level predicate is false only if an exclusion keyword is
\* mentioned in title + location, it is true whenever neither an exclusion nor
\* a secondary keyword is mentioned, and "Social Studies Teacher" with no
\* location passes.
C10_GradeFalseOnlyIfExcluded ==
    pc = "classified" =>
        /\ (~ verdict.grade) => MentionsAny(EXCLUDE_KEYWORDS, GradeFields(job))
        /\ (/\ ~ MentionsAny(EXCLUDE_KEYWORDS, GradeFields(job))
            /\ ~ MentionsAny(SECONDARY_KEYWORDS, GradeFields(job))) => verdict.grade
        /\ (Get(job, "title") = "Social Studies Teacher" /\ "location" \notin DOMAIN job)
              => verdict.grade

\* "Social Studies Teacher" without location and without any grade marker passes
C10_Witness ==
    /\ pc = "classified"
    /\ Get(job, "title") = "Social Studies Teacher"
    /\ "location" \notin DOMAIN job
    /\ ~ MentionsAny(EXCLUDE_KEYWORDS, GradeFields(job))
    /\ ~ MentionsAny(SECONDARY_KEYWORDS, GradeFields(job))
    /\ verdict.grade

(***************************************************************************)
(* filter_jobs harness: a list of jobs drawn from a bounded set            *)
(***************************************************************************)

\* the longest list of jobs handed to filter_jobs and to get_new_jobs
MaxJobs == 3

\* all lists over S of length at most n
Lists(S, n) == UNION {[1..k -> S] : k \in 0..n}

\* a record as the listing-based adapters build it
ListingJob(district, title, url) ==
    [title |-> title, district |-> district, url |-> url, source |-> "District Website"]

\* jobs that pass all three predicates, and jobs that fail exactly one of them
FilterPool ==
    { ListingJob("Example SD", "High School History Teacher", "http://x/postings/42"),
      ListingJob("Example SD", "Civics Teacher", "http://x/postings/43"),
      ListingJob("Example SD", "Math Teacher", "http://x/postings/44"),
      ListingJob("Example SD", "Social Studies Paraprofessional", "http://x/postings/45"),
      ListingJob("Example SD", "Elementary School History Teacher", "http://x/postings/46") }

InitFilter ==
    /\ pc = "input"
    /\ all_jobs \in Lists(FilterPool, MaxJobs)
    /\ filtered_jobs = <<>>
    /\ previous_ids = {}
    /\ new_jobs = <<>>
    /\ RunIdle
    /\ SiteIdle
    /\ ClassifierIdle

\* filter_jobs(all_jobs, social_studies_only=True), as both runners call it
FilterSocialStudies ==
    /\ pc = "input"
    /\ filtered_jobs' = filter_jobs(all_jobs, TRUE)
    /\ pc' = "filtered"
    /\ UNCHANGED <<all_jobs, previous_ids, new_jobs, otherVars>>

\* filter_jobs(all_jobs), the default social_studies_only=False
FilterOff ==
    /\ pc = "input"
    /\ filtered_jobs' = filter_jobs(all_jobs, FALSE)
    /\ pc' = "unfiltered"
    /\ UNCHANGED <<all_jobs, previous_ids, new_jobs, otherVars>>

NextFilter ==
    \/ FilterSocialStudies
    \/ FilterOff

SpecFilter == InitFilter /\ [][NextFilter]_vars

Relevant(j) ==
    is_social_studies_job(j) /\ is_teaching_position(j) /\ is_secondary_level(j)

\* C6: filter_jobs(jobs, social_studies_only=True) returns exactly the jobs for
\* which all three predicates are true, in input order; a job failing one of
\* the predicates is never in the result.
C6_FilterIsConjunction ==
    pc = "filtered" =>
        /\ filtered_jobs = SelectSeq(all_jobs, Relevant)
        /\ \A i \in DOMAIN filtered_jobs :
              /\ is_social_studies_job(filtered_jobs[i])
              /\ is_teaching_position(filtered_jobs[i])
              /\ is_secondary_level(filtered_jobs[i])

\* the first and third job were kept in that order, and the second, which
\* fails the grade-level predicate alone, was dropped
C6_Witness ==
    /\ pc = "filtered"
    /\ Len(all_jobs) = 3
    /\ all_jobs[1] # all_jobs[3]
    /\ filtered_jobs = <<all_jobs[1], all_jobs[3]>>
    /\ is_social_studies_job(all_jobs[2])
    /\ is_teaching_position(all_jobs[2])
    /\ ~ is_secondary_level(all_jobs[2])

(***************************************************************************)
(* get_new_jobs harness: current jobs C and previous keys P drawn from     *)
(* bounded sets; the key of a job is computed at every place of the code   *)
(***************************************************************************)

\* two records with one key (different urls), a title that differs in case
\* only, and the same title in another district
DiffPool ==
    { ListingJob("Example SD", "High School History Teacher", "http://x/postings/42"),
      ListingJob("Example SD", "High School History Teacher", "http://x/postings/47"),
      ListingJob("Example SD", "high school history teacher", "http://x/postings/48"),
      ListingJob("Sample SD", "High School History Teacher", "http://y/postings/1") }

KeyPool ==
    { "Example SD|High School History Teacher",
      "Example SD|high school history teacher",
      "Sample SD|High School History Teacher",
      "Example SD|Civics Teacher" }

InitDiff ==
    /\ pc = "input"
    /\ filtered_jobs \in Lists(DiffPool, MaxJobs)
    /\ previous_ids \in SUBSET KeyPool
    /\ all_jobs = <<>>
    /\ new_jobs = <<>>
    /\ RunIdle
    /\ SiteIdle
    /\ ClassifierIdle

\* new_jobs = get_new_jobs(filtered_jobs, previous_ids)
GetNewJobs ==
    /\ pc = "input"
    /\ new_jobs' = get_new_jobs(filtered_jobs, previous_ids)
    /\ pc' = "diffed"
    /\ UNCHANGED <<all_jobs, filtered_jobs, previous_ids, otherVars>>

\* a key is taken out of the previous keys and the diff is computed again
GetNewJobsWithout(key) ==
    /\ pc = "diffed"
    /\ key \in previous_ids
    /\ previous_ids' = previous_ids \ {key}
    /\ new_jobs' = get_new_jobs(filtered_jobs, previous_ids')
    /\ pc' = "diffed"
    /\ UNCHANGED <<all_jobs, filtered_jobs, otherVars>>

NextDiff ==
    \/ GetNewJobs
    \/ \E key \in KeyPool : GetNewJobsWithout(key)

SpecDiff == InitDiff /\ [][NextDiff]_vars

\* the identity key as the specification defines it
IdentityKey(j) == j["district"] \o "|" \o j["title"]

NotInPrevious(j) == IdentityKey(j) \notin previous_ids

\* C1: get_new_jobs(C, P) returns exactly the records of C whose key
\* district|title is not in P, in the order of C: it is empty when every key
\* of C is in P, and a job is returned again once its key is out of P.
C1_NewJobsAreThoseNotInPrevious ==
    pc = "diffed" =>
        /\ new_jobs = SelectSeq(filtered_jobs, NotInPrevious)
        /\ (\A i \in DOMAIN filtered_jobs : IdentityKey(filtered_jobs[i]) \in previous_ids)
              => new_jobs = <<>>
        /\ \A i \in DOMAIN filtered_jobs :
              IdentityKey(filtered_jobs[i]) \notin previous_ids
                  => \E k \in DOMAIN new_jobs : new_jobs[k] = filtered_jobs[i]

\* some records were held back, and two records sharing one key were both returned
C1_Witness ==
    /\ pc = "diffed"
    /\ Len(filtered_jobs) = 3
    /\ Len(new_jobs) = 2
    /\ new_jobs[1] # new_jobs[2]
    /\ IdentityKey(new_jobs[1]) = IdentityKey(new_jobs[2])

\* the row upsert_jobs stores for a job: its district and title as they are
JobRow(j) == [district |-> j["district"], title |-> j["title"]]

\* C5: the key of a job is exactly district + "|" + title, case kept, at every
\* place that computes it (local save, local diff, and the cloud runner's
\* get_existing_job_ids, mark_missing_jobs_inactive and current_job_keys), so
\* the local diff reports a job exactly when its cloud key is not a previous key.
C5_OneKeyEverywhere ==
    /\ \A i \in DOMAIN filtered_jobs :
          LET j == filtered_jobs[i]
              key == j["district"] \o "|" \o j["title"]
          IN  /\ save_job_id(j) = key
              /\ diff_job_id(j) = key
              /\ existing_job_id(JobRow(j)) = key
              /\ missing_job_key(JobRow(j)) = key
              /\ current_job_key(j) = key
    /\ pc = "diffed" =>
          \A i \in DOMAIN filtered_jobs :
              (\E k \in DOMAIN new_jobs : new_jobs[k] = filtered_jobs[i])
                  <=> current_job_key(filtered_jobs[i]) \notin previous_ids

\* a job whose title differs from a previous key in case only is reported
C5_Witness ==
    /\ pc = "diffed"
    /\ previous_ids = {"Example SD|high school history teacher"}
    /\ \E k \in DOMAIN new_jobs :
          /\ new_jobs[k]["title"] = "High School History Teacher"
          /\ new_jobs[k]["district"] = "Example SD"

(***************************************************************************)
(* run_automated.py: run_scraper, run again and again by the scheduler     *)
(***************************************************************************)

\* the longest list of records one district's adapter returns
MaxJobsPerDistrict == 2

\* config.json
Config ==
    [schools |->
        << [name |-> "Example SD", type |-> "Other", url |-> "http://x/jobs"],
           [name |-> "Sample SD", type |-> "PowerSchool", url |-> "http://y/jobs"] >>]

NumSchools == Len(Config.schools)

\* the source field each adapter writes
SourceOf(type) ==
    IF type = "PowerSchool" THEN "PowerSchool" ELSE "District Website"

\* the postings a district's portal may show: one passes the filter, one does not
Postings(sch) ==
    { [title |-> t, district |-> sch.name, url |-> sch.url \o "/" \o t,
       source |-> SourceOf(sch.type)] :
          t \in {"High School History Teacher", "Elementary School History Teacher"} }

\* what scrape_district(school) may return: the adapter's records, district = name
scrape_district(sch) == Lists(Postings(sch), MaxJobsPerDistrict)

KeyOfExample == "Example SD|High School History Teacher"

\* what the run may find in .job_cache.json before the first run
InitialCaches ==
    { FileAbsent,
      FileInvalid,
      FileJson(JList(<<JStr(KeyOfExample)>>)),
      FileJson(JObj([last_run |-> JStr(LastRunStamp)])),
      FileJson(JObj([job_ids |-> JNull])),
      FileJson(JObj([job_ids |-> JList(<<JStr(KeyOfExample), JList(<<>>)>>)])),
      FileJson(JObj([job_ids |-> JStr(KeyOfExample)])),
      FileJson(JObj([job_ids |-> JObj([k \in {KeyOfExample} |-> JNum(1)])])),
      FileJson(CacheDocument(<<KeyOfExample>>, 1)) }

Init ==
    /\ pc = "start"
    /\ cache \in InitialCaches
    /\ school = 1
    /\ all_jobs = <<>>
    /\ filtered_jobs = <<>>
    /\ previous_ids = {}
    /\ new_jobs = <<>>
    /\ results = NotNotified
    /\ loads = 0
    /\ saves = 0
    /\ prev_done = FALSE
    /\ prev_keys = {}
    /\ prev2_keys = {}
    /\ ClassifierIdle
    /\ SiteIdle

KeysOf(jobs) == {IdentityKey(jobs[i]) : i \in DOMAIN jobs}

\* the scheduler starts run_scraper; the history of the run before, if it got
\* as far as saving its state, is recorded
StartRun ==
    /\ pc \in {"start", "done", "aborted"}
    /\ pc' = "load_settings"
    /\ school' = 1
    /\ all_jobs' = <<>>
    /\ filtered_jobs' = <<>>
    /\ previous_ids' = {}
    /\ new_jobs' = <<>>
    /\ results' = NotNotified
    /\ loads' = 0
    /\ saves' = 0
    /\ prev_done' = (prev_done \/ saves = 1)
    /\ prev_keys' = IF saves = 1 THEN KeysOf(filtered_jobs) ELSE prev_keys
    /\ prev2_keys' = IF saves = 1 THEN prev_keys ELSE prev2_keys
    /\ UNCHANGED <<cache, job, verdict, siteVars>>

runLocals == <<school, all_jobs, filtered_jobs, previous_ids, new_jobs, results>>

history == <<prev_done, prev_keys, prev2_keys>>

\* load_settings: settings.json exists and is read
LoadSettings ==
    /\ pc = "load_settings"
    /\ pc' = "load_config"
    /\ UNCHANGED <<cache, runLocals, loads, saves, history, job, verdict, siteVars>>

\* load_settings: settings.json is missing, sys.exit(1)
LoadSettingsMissing ==
    /\ pc = "load_settings"
    /\ pc' = "aborted"
    /\ UNCHANGED <<cache, runLocals, loads, saves, history, job, verdict, siteVars>>

\* load_config: config.json is read
LoadConfig ==
    /\ pc = "load_config"
    /\ pc' = "scrape"
    /\ UNCHANGED <<cache, runLocals, loads, saves, history, job, verdict, siteVars>>

\* load_config: open() raises, nothing in run_scraper catches it
LoadConfigMissing ==
    /\ pc = "load_config"
    /\ pc' = "aborted"
    /\ UNCHANGED <<cache, runLocals, loads, saves, history, job, verdict, siteVars>>

\* the mutant: the state file is written after each district
ScrapeDistrictAndSave(jobs) ==
    /\ pc = "scrape"
    /\ school <= NumSchools
    /\ jobs \in scrape_district(Config.schools[school])
    /\ all_jobs' = all_jobs \o jobs
    /\ school' = school + 1
    /\ cache' = save_current_jobs(filter_jobs(all_jobs', TRUE), cache)
    /\ saves' = saves + 1
    /\ UNCHANGED <<pc, filtered_jobs, previous_ids, new_jobs, results, loads,
                   history, job, verdict, siteVars>>

\* one pass of the loop of scrape_all_districts: all_jobs.extend(scrape_district(school))
ScrapeDistrict(jobs) ==
    /\ pc = "scrape"
    /\ school <= NumSchools
    /\ jobs \in scrape_district(Config.schools[school])
    /\ all_jobs' = all_jobs \o jobs
    /\ school' = school + 1
    /\ UNCHANGED <<pc, cache, filtered_jobs, previous_ids, new_jobs, results,
                   loads, saves, history, job, verdict, siteVars>>

\* the mutant: the records scraped so far are saved before the run ends
ScrapeRaisesAfterSave ==
    /\ pc = "scrape"
    /\ school <= NumSchools
    /\ cache' = save_current_jobs(filter_jobs(all_jobs, TRUE), cache)
    /\ pc' = "aborted"
    /\ UNCHANGED <<runLocals, loads, saves, history, job, verdict, siteVars>>

\* scrape_district raises inside scrape_all_districts (a district entry lacks
\* a key): nothing catches it, run_scraper ends
ScrapeRaises ==
    /\ pc = "scrape"
    /\ school <= NumSchools
    /\ pc' = "aborted"
    /\ UNCHANGED <<cache, runLocals, loads, saves, history, job, verdict, siteVars>>

\* filter_jobs raises: nothing catches it, run_scraper ends
FilterRaises ==
    /\ pc = "scrape"
    /\ school > NumSchools
    /\ pc' = "aborted"
    /\ UNCHANGED <<cache, runLocals, loads, saves, history, job, verdict, siteVars>>

\* scrape_all_districts returns; filtered_jobs = filter_jobs(all_jobs, social_studies_only=True)
FilterJobs ==
    /\ pc = "scrape"
    /\ school > NumSchools
    /\ filtered_jobs' = filter_jobs(all_jobs, TRUE)
    /\ pc' = "load_previous"
    /\ UNCHANGED <<cache, school, all_jobs, previous_ids, new_jobs, results,
                   loads, saves, history, job, verdict, siteVars>>

\* previous_ids = load_previous_jobs()
LoadPrevious ==
    /\ pc = "load_previous"
    /\ LET r == load_previous_jobs(cache)
       IN  /\ previous_ids' = r.ids
           /\ pc' = IF r.raised THEN "aborted" ELSE "diff"
    /\ loads' = loads + 1
    /\ UNCHANGED <<cache, school, all_jobs, filtered_jobs, new_jobs, results,
                   saves, history, job, verdict, siteVars>>

\* the mutant: a posting that was notified once is never new again
DiffUnlessSent ==
    /\ pc = "diff"
    /\ new_jobs' = get_new_jobs(filtered_jobs, previous_ids \cup sent)
    /\ pc' = "save"
    /\ UNCHANGED <<cache, school, all_jobs, filtered_jobs, previous_ids, results,
                   loads, saves, history, job, verdict, siteVars>>

\* new_jobs = get_new_jobs(filtered_jobs, previous_ids)
Diff ==
    /\ pc = "diff"
    /\ new_jobs' = get_new_jobs(filtered_jobs, previous_ids)
    /\ pc' = "save"
    /\ UNCHANGED <<cache, school, all_jobs, filtered_jobs, previous_ids, results,
                   loads, saves, history, job, verdict, siteVars>>

\* save_current_jobs(filtered_jobs)
Save ==
    /\ pc = "save"
    /\ cache' = save_current_jobs(filtered_jobs, cache)
    /\ saves' = saves + 1
    /\ pc' = "notify"
    /\ UNCHANGED <<runLocals, loads, history, job, verdict, siteVars>>

\* if new_jobs: results = send_notifications(new_jobs, settings); each channel
\* answers True, or False when it is not configured or its delivery fails
Notify(email, push) ==
    /\ pc = "notify"
    /\ new_jobs # <<>>
    /\ results' = [called |-> TRUE, email |-> email, push |-> push]
    /\ pc' = "write_results"
    /\ UNCHANGED <<cache, school, all_jobs, filtered_jobs, previous_ids, new_jobs,
                   loads, saves, history, job, verdict, siteVars>>

\* send_notifications raises (settings.json holds no JSON object, a record
\* lacks url): nothing in run_scraper catches it, the state is already saved
NotifyRaises ==
    /\ pc = "notify"
    /\ new_jobs # <<>>
    /\ results' = [called |-> TRUE, email |-> FALSE, push |-> FALSE]
    /\ pc' = "aborted"
    /\ UNCHANGED <<cache, school, all_jobs, filtered_jobs, previous_ids, new_jobs,
                   loads, saves, history, job, verdict, siteVars>>

\* else: "No new positions since last run. No notifications sent."
NoNotify ==
    /\ pc = "notify"
    /\ new_jobs = <<>>
    /\ pc' = "write_results"
    /\ UNCHANGED <<cache, runLocals, loads, saves, history, job, verdict, siteVars>>

\* latest_results.json is written and run_scraper returns len(new_jobs)
WriteResults ==
    /\ pc = "write_results"
    /\ pc' = "done"
    /\ UNCHANGED <<cache, runLocals, loads, saves, history, job, verdict, siteVars>>

Next ==
    \/ StartRun
    \/ LoadSettings
    \/ LoadSettingsMissing
    \/ LoadConfig
    \/ LoadConfigMissing
    \/ \E jobs \in Lists(UNION {Postings(Config.schools[i]) : i \in 1..NumSchools},
                         MaxJobsPerDistrict) : ScrapeDistrict(jobs)
    \/ ScrapeRaises
    \/ FilterJobs
    \/ FilterRaises
    \/ LoadPrevious
    \/ Diff
    \/ Save
    \/ \E email \in BOOLEAN, push \in BOOLEAN : Notify(email, push)
    \/ NotifyRaises
    \/ NoNotify
    \/ WriteResults

Spec == Init /\ [][Next]_vars

(***************************************************************************)
(* Claims about the local runner (under Spec)                              *)
(***************************************************************************)

InNewJobs(j) == \E k \in DOMAIN new_jobs : new_jobs[k] = j

\* C2: after a completed run the state file holds exactly the keys of that
\* run's filtered jobs (overwritten, not merged), so a posting is reported new
\* in a run if and only if its key was not among the filtered jobs of the
\* completed run before it; a posting of run n-2 that run n-1 did not have is
\* new again in run n.
C2_StateIsLastRunsKeys ==
    /\ pc = "done" =>
          /\ StoredIds(cache) = [i \in 1..Len(filtered_jobs) |-> IdentityKey(filtered_jobs[i])]
          /\ load_previous_jobs(cache).ids = KeysOf(filtered_jobs)
    /\ (pc = "done" /\ prev_done) =>
          \A i \in DOMAIN filtered_jobs :
              /\ InNewJobs(filtered_jobs[i]) <=> IdentityKey(filtered_jobs[i]) \notin prev_keys
              /\ (/\ IdentityKey(filtered_jobs[i]) \in prev2_keys
                  /\ IdentityKey(filtered_jobs[i]) \notin prev_keys) => InNewJobs(filtered_jobs[i])
    /\ \A k \in DOMAIN new_jobs : \E i \in DOMAIN filtered_jobs : filtered_jobs[i] = new_jobs[k]

\* a posting of run n-2 that run n-1 did not have is reported new by run n,
\* while a posting run n-1 had as well is not
C2_Witness ==
    /\ pc = "done"
    /\ prev_done
    /\ \E i \in DOMAIN filtered_jobs :
          /\ IdentityKey(filtered_jobs[i]) \in prev2_keys
          /\ IdentityKey(filtered_jobs[i]) \notin prev_keys
          /\ InNewJobs(filtered_jobs[i])
    /\ \E i \in DOMAIN filtered_jobs :
          /\ IdentityKey(filtered_jobs[i]) \in prev_keys
          /\ ~ InNewJobs(filtered_jobs[i])

\* the file holds a JSON object whose job_ids is a list of strings
UsableCache(file) ==
    /\ file.kind = "json"
    /\ file.doc.t = "obj"
    /\ "job_ids" \in DOMAIN file.doc.v
    /\ file.doc.v["job_ids"].t = "list"
    /\ \A i \in 1..Len(file.doc.v["job_ids"].v) : file.doc.v["job_ids"].v[i].t = "str"

\* C3 as stated: load_previous_jobs never raises, and when the cache file is
\* missing or holds no JSON object with a usable job_ids list it returns the
\* empty set, so that the run reports every filtered job as new.
C3_UnusableCacheLoadsEmpty ==
    /\ ~ load_previous_jobs(cache).raised
    /\ (pc \in {"diff", "save"} /\ ~ UsableCache(cache)) => previous_ids = {}
    /\ (pc = "save" /\ ~ UsableCache(cache)) => new_jobs = filtered_jobs

\* C4: in a run the previous keys are loaded once, before the diff, and the
\* current keys are saved once, after every district has been scraped and the
\* result filtered; the state file is not written while districts are scraped.
C4_LoadOnceSaveOnceAfterAggregation ==
    /\ loads <= 1
    /\ saves <= 1
    /\ pc \in {"save", "notify", "write_results", "done"} => loads = 1
    /\ saves = 1 => (loads = 1 /\ school > NumSchools
                        /\ pc \in {"notify", "write_results", "done", "aborted"})
    /\ pc = "scrape" => (loads = 0 /\ saves = 0)
    /\ pc = "done" => (loads = 1 /\ saves = 1)

\* a run over both districts has completed with one load and one save
C4_Witness ==
    /\ pc = "done"
    /\ loads = 1
    /\ saves = 1
    /\ school = NumSchools + 1
    /\ \E i, k \in DOMAIN all_jobs : all_jobs[i]["district"] # all_jobs[k]["district"]

(***************************************************************************)
(* scrapers/: what an adapter sees of a portal page                        *)
(*                                                                         *)
(* A page fetched with requests and parsed with BeautifulSoup is the       *)
(* sequence of its elements in document order.  An element is              *)
(* [tag, class, within, text, link]: text is get_text(strip=True), link is *)
(* the first <a> inside it (the element itself when tag = "a"), and        *)
(* within is the class of the div, article or section that encloses it.    *)
(***************************************************************************)

\* str.startswith(prefix)
StartsWith(s, prefix) ==
    Len(s) >= Len(prefix) /\ SubSeq(s, 1, Len(prefix)) = prefix

RECURSIVE LStrip(_)
\* str.lstrip() (the pages of the model hold no whitespace but the space)
LStrip(s) ==
    IF s # "" /\ Head(s) = " " THEN LStrip(Tail(s)) ELSE s

RECURSIVE RStrip(_)
\* str.rstrip()
RStrip(s) ==
    IF s # "" /\ SubSeq(s, Len(s), Len(s)) = " "
    THEN RStrip(SubSeq(s, 1, Len(s) - 1))
    ELSE s

\* str.strip()
Strip(s) == RStrip(LStrip(s))

\* s[:n]
Truncate(s, n) ==
    IF Len(s) <= n THEN s ELSE SubSeq(s, 1, n)

\* the positions (counted from 1) at which sub occurs in s
Occurrences(s, sub) ==
    {i \in 1..(Len(s) - Len(sub) + 1) : SubSeq(s, i, i + Len(sub) - 1) = sub}

\* the largest element of a non-empty set of integers
Max(S) == CHOOSE m \in S : \A k \in S : k <= m

\* the smallest element of a non-empty set of integers
Min(S) == CHOOSE m \in S : \A k \in S : m <= k

\* an <a> element: its stripped text and its href attribute (Absent if it has none)
Anchor(text, href) == [present |-> TRUE, text |-> text, href |-> href]

\* element.find('a') found nothing
NoLink == [present |-> FALSE, text |-> "", href |-> Absent]

\* link.get('href', '')
HrefOf(link) ==
    IF link.href = Absent THEN "" ELSE link.href

Element(tag, class, within, text, link) ==
    [tag |-> tag, class |-> class, within |-> within, text |-> text, link |-> link]

\* the <a> elements of a sequence of elements, in document order
RECURSIVE AnchorsOf(_)
AnchorsOf(elements) ==
    IF elements = <<>> THEN <<>>
    ELSE IF Head(elements).link.present
         THEN <<Head(elements).link>> \o AnchorsOf(Tail(elements))
         ELSE AnchorsOf(Tail(elements))

\* the scheme and host of an absolute url: everything before the first "/" of the path
OriginOf(base) ==
    LET slashes == {i \in Occurrences(base, "/") : i > Min(Occurrences(base, "://")) + 2}
    IN  IF slashes = {} THEN base ELSE SubSeq(base, 1, Min(slashes) - 1)

\* an absolute url without its last path segment, ending in "/"
DirectoryOf(base) ==
    LET slashes == {i \in Occurrences(base, "/") : i > Min(Occurrences(base, "://")) + 2}
    IN  IF slashes = {} THEN base \o "/" ELSE SubSeq(base, 1, Max(slashes))

\* urllib.parse.urljoin(base, href) for an absolute http base and an href that
\* is empty, absolute, rooted ("/...") or a relative path; an absolute href
\* with an unclosed "[" makes urljoin raise ValueError (Invalid IPv6 URL)
urljoin(base, href) ==
    IF href = "" THEN [raised |-> FALSE, url |-> base]
    ELSE IF StartsWith(href, "http://") \/ StartsWith(href, "https://")
    THEN IF Contains(href, "[") /\ ~Contains(href, "]")
         THEN [raised |-> TRUE, url |-> ""]
         ELSE [raised |-> FALSE, url |-> href]
    ELSE IF StartsWith(href, "/")
    THEN [raised |-> FALSE, url |-> OriginOf(base) \o href]
    ELSE [raised |-> FALSE, url |-> DirectoryOf(base) \o href]

\* the mutant: the kept candidates come out newest first
RECURSIVE dedup_loop_newest_first(_, _, _, _, _)
dedup_loop_newest_first(jobs, keys, accept, seen, unique_jobs) ==
    IF jobs = <<>> THEN unique_jobs
    ELSE IF Head(keys) \notin seen /\ Head(accept)
         THEN dedup_loop_newest_first(Tail(jobs), Tail(keys), Tail(accept),
                                      seen \cup {Head(keys)}, <<Head(jobs)>> \o unique_jobs)
         ELSE dedup_loop_newest_first(Tail(jobs), Tail(keys), Tail(accept), seen, unique_jobs)

\* the loop every adapter ends with: a candidate is kept when its key has not
\* been seen and the adapter's extra test accepts it; keys and accept are
\* aligned with jobs
RECURSIVE dedup_loop(_, _, _, _, _)
dedup_loop(jobs, keys, accept, seen, unique_jobs) ==
    IF jobs = <<>> THEN unique_jobs
    ELSE IF Head(keys) \notin seen /\ Head(accept)
         THEN dedup_loop(Tail(jobs), Tail(keys), Tail(accept),
                         seen \cup {Head(keys)}, Append(unique_jobs, Head(jobs)))
         ELSE dedup_loop(Tail(jobs), Tail(keys), Tail(accept), seen, unique_jobs)

\* what the strategies of an adapter leave in its local jobs, and whether an
\* exception ended them
Collected(jobs, raised) == [jobs |-> jobs, raised |-> raised]

(***************************************************************************)
(* scrapers/other.py: scrape_other                                         *)
(***************************************************************************)

job_keywords ==
    <<"job", "position", "opening", "employment", "career", "vacancy",
      "hiring", "posting", "opportunity", "apply">>

job_title_patterns ==
    <<"teacher", "principal", "secretary", "aide", "coach",
      "custodian", "driver", "nurse", "counselor", "specialist",
      "director", "coordinator", "assistant", "paraprofessional",
      "substitute", "tutor", "librarian", "technician">>

\* a record as scrape_other and scrape_powerschool build it
PortalJob(title, district_name, url, source) ==
    [title |-> title, district |-> district_name, url |-> url, source |-> source]

\* Strategy 1: the loop over soup.find_all('a', href=True)
RECURSIVE other_anchor_loop(_, _, _, _)
other_anchor_loop(all_links, url, district_name, jobs) ==
    IF all_links = <<>> THEN Collected(jobs, FALSE)
    ELSE LET link == Head(all_links)
             href == Lower(HrefOf(link))
             text == Lower(link.text)
             is_job_link == AnyKeywordIn(job_keywords, href)
             is_job_title == AnyKeywordIn(job_title_patterns, text)
             title == link.text
             job_url == urljoin(url, HrefOf(link))
         IN  IF Len(text) < 3 \/ Len(text) > 200
             THEN other_anchor_loop(Tail(all_links), url, district_name, jobs)
             ELSE IF text \in {"home", "about", "contact", "login", "search"}
             THEN other_anchor_loop(Tail(all_links), url, district_name, jobs)
             ELSE IF (is_job_link \/ is_job_title) /\ title # "" /\ Len(title) > 2
             THEN IF job_url.raised
                  THEN Collected(jobs, TRUE)
                  ELSE other_anchor_loop(Tail(all_links), url, district_name,
                           Append(jobs, PortalJob(title, district_name, job_url.url,
                                                  "District Website")))
             ELSE other_anchor_loop(Tail(all_links), url, district_name, jobs)

\* Strategy 2: the loop over soup.find_all('li'); job_title_patterns is bound
\* inside the loop of strategy 1, after its two continue statements, so it is
\* unbound (NameError) when no link got past them
RECURSIVE other_item_loop(_, _, _, _, _)
other_item_loop(items, bound, url, district_name, jobs) ==
    IF items = <<>> THEN Collected(jobs, FALSE)
    ELSE IF ~bound THEN Collected(jobs, TRUE)
    ELSE LET li == Head(items)
             text == li.text
             link == li.link
             title == IF link.text # "" THEN link.text ELSE Truncate(text, 100)
             job_url == urljoin(url, HrefOf(link))
         IN  IF AnyKeywordIn(job_title_patterns, Lower(text))
             THEN IF link.present
                  THEN IF job_url.raised
                       THEN Collected(jobs, TRUE)
                       ELSE other_item_loop(Tail(items), bound, url, district_name,
                                Append(jobs, PortalJob(title, district_name, job_url.url,
                                                       "District Website")))
                  ELSE other_item_loop(Tail(items), bound, url, district_name,
                           Append(jobs, PortalJob(Truncate(text, 100), district_name, url,
                                                  "District Website")))
             ELSE other_item_loop(Tail(items), bound, url, district_name, jobs)

\* Strategy 3: the loop over the p, li, h2, h3 and h4 elements of the content divs
RECURSIVE other_content_loop(_, _, _, _, _)
other_content_loop(paragraphs, bound, url, district_name, jobs) ==
    IF paragraphs = <<>> THEN Collected(jobs, FALSE)
    ELSE IF ~bound THEN Collected(jobs, TRUE)
    ELSE LET p == Head(paragraphs)
             text == p.text
             joined == urljoin(url, HrefOf(p.link))
             job_url == IF p.link.present THEN joined ELSE [raised |-> FALSE, url |-> url]
         IN  IF AnyKeywordIn(job_title_patterns, Lower(text))
             THEN IF job_url.raised
                  THEN Collected(jobs, TRUE)
                  ELSE other_content_loop(Tail(paragraphs), bound, url, district_name,
                           Append(jobs, PortalJob(Truncate(text, 100), district_name,
                                                  job_url.url, "District Website")))
             ELSE other_content_loop(Tail(paragraphs), bound, url, district_name, jobs)

\* soup.find_all('a', href=True)
other_links(site) ==
    SelectSeq(AnchorsOf(site.elements), LAMBDA a : a.href # Absent)

\* soup.find_all('li')
other_items(site) ==
    SelectSeq(site.elements, LAMBDA e : e.tag = "li")

\* the p, li, h2, h3 and h4 elements inside the div, article and section
\* elements whose class matches (content|main|body)
other_paragraphs(site) ==
    SelectSeq(site.elements, LAMBDA e :
        /\ e.tag \in {"p", "li", "h2", "h3", "h4"}
        /\ AnyKeywordIn(<<"content", "main", "body">>, Lower(e.within)))

\* job_title_patterns is bound once a link has got past the two continue
\* statements of the loop of strategy 1
other_patterns_bound(site) ==
    \E i \in DOMAIN other_links(site) :
        /\ Len(other_links(site)[i].text) >= 3
        /\ Len(other_links(site)[i].text) <= 200
        /\ Lower(other_links(site)[i].text) \notin
               {"home", "about", "contact", "login", "search"}

\* the try block of scrape_other: the three strategies, each later one run
\* only if jobs is still empty; an exception ends the block and keeps jobs
other_collect(site, url, district_name) ==
    IF site.fetch # "ok" THEN Collected(<<>>, TRUE)
    ELSE
    LET bound == other_patterns_bound(site)
        first == other_anchor_loop(other_links(site), url, district_name, <<>>)
        second == other_item_loop(other_items(site), bound, url, district_name, <<>>)
        third == other_content_loop(other_paragraphs(site), bound, url, district_name, <<>>)
    IN  IF first.raised \/ first.jobs # <<>> THEN first
        ELSE IF second.raised \/ second.jobs # <<>> THEN second
        ELSE third

\* the deduplication of scrape_other: key = (job['title'], job['url'])
other_dedup(jobs) ==
    dedup_loop(jobs, [i \in DOMAIN jobs |-> <<jobs[i].title, jobs[i].url>>],
               [i \in DOMAIN jobs |-> TRUE], {}, <<>>)

scrape_other(site, url, district_name) ==
    other_dedup(other_collect(site, url, district_name).jobs)

(***************************************************************************)
(* scrapers/powerschool.py: scrape_powerschool                             *)
(***************************************************************************)

\* the loops over job links, over elements with a job class and over list
\* items all end in the same body: title = link.get_text(strip=True), kept
\* when longer than 2 characters
RECURSIVE powerschool_link_loop(_, _, _, _)
powerschool_link_loop(links, url, district_name, jobs) ==
    IF links = <<>> THEN Collected(jobs, FALSE)
    ELSE LET link == Head(links)
             title == link.text
             job_url == urljoin(url, HrefOf(link))
         IN  IF title # "" /\ Len(title) > 2
             THEN IF job_url.raised
                  THEN Collected(jobs, TRUE)
                  ELSE powerschool_link_loop(Tail(links), url, district_name,
                           Append(jobs, PortalJob(title, district_name, job_url.url,
                                                  "PowerSchool")))
             ELSE powerschool_link_loop(Tail(links), url, district_name, jobs)

\* soup.find_all('a', href=re.compile(r'(ViewJob|jobid|posting)', re.I))
powerschool_job_links(site) ==
    SelectSeq(AnchorsOf(site.elements), LAMBDA a :
        /\ a.href # Absent
        /\ AnyKeywordIn(<<"viewjob", "jobid", "posting">>, Lower(a.href)))

\* the links inside the div, span and td elements whose class matches
\* (job|position|title)
powerschool_class_links(site) ==
    AnchorsOf(SelectSeq(site.elements, LAMBDA e :
        /\ e.tag \in {"div", "span", "td"}
        /\ AnyKeywordIn(<<"job", "position", "title">>, Lower(e.class))))

\* the links inside list items whose href mentions job, posting or position
powerschool_item_links(site) ==
    AnchorsOf(SelectSeq(site.elements, LAMBDA e :
        /\ e.tag = "li"
        /\ e.link.present
        /\ HrefOf(e.link) # ""
        /\ AnyKeywordIn(<<"job", "posting", "position">>, Lower(HrefOf(e.link)))))

\* the try block of scrape_powerschool
powerschool_collect(site, url, district_name) ==
    IF site.fetch # "ok" THEN Collected(<<>>, TRUE)
    ELSE
    LET first == powerschool_link_loop(powerschool_job_links(site), url,
                                       district_name, <<>>)
        second == powerschool_link_loop(powerschool_class_links(site), url,
                                        district_name, <<>>)
        third == powerschool_link_loop(powerschool_item_links(site), url,
                                       district_name, <<>>)
    IN  IF first.raised \/ first.jobs # <<>> THEN first
        ELSE IF second.raised \/ second.jobs # <<>> THEN second
        ELSE third

\* the deduplication of scrape_powerschool: key = job['url']
powerschool_dedup(jobs) ==
    dedup_loop(jobs, [i \in DOMAIN jobs |-> jobs[i].url],
               [i \in DOMAIN jobs |-> TRUE], {}, <<>>)

scrape_powerschool(site, url, district_name) ==
    powerschool_dedup(powerschool_collect(site, url, district_name).jobs)

(***************************************************************************)
(* scrapers/applitrack.py: scrape_applitrack, scrape_applitrack_basic      *)
(***************************************************************************)

SOCIAL_STUDIES_SEARCH_TERMS ==
    <<"social studies", "history", "civics", "government", "economics",
      "geography", "humanities", "sociology", "psychology">>

\* lines[i], with Python's index from 0
At(lines, i) == lines[i + 1]

\* the inner loop over k in range(j + 1, min(j + 3, len(lines))): the first
\* line that is not blank, stripped
applitrack_value(lines, j) ==
    LET ks == {k \in (j + 1)..(Min({j + 3, Len(lines)}) - 1) : Strip(At(lines, k)) # ""}
    IN  IF ks = {} THEN [found |-> FALSE, value |-> ""]
        ELSE [found |-> TRUE, value |-> Strip(At(lines, Min(ks)))]

\* the loop over j in range(i + 1, min(i + 15, len(lines))) for one label:
\* every label line that has a value overwrites the field
RECURSIVE applitrack_field(_, _, _, _, _)
applitrack_field(lines, label, j, stop, value) ==
    IF j >= stop THEN value
    ELSE IF Contains(At(lines, j), label) /\ applitrack_value(lines, j).found
         THEN applitrack_field(lines, label, j + 1, stop, applitrack_value(lines, j).value)
         ELSE applitrack_field(lines, label, j + 1, stop, value)

\* the loop over the lines of the rendered search result for one term
RECURSIVE applitrack_line_loop(_, _, _, _, _, _)
applitrack_line_loop(lines, i, url, district_name, term, jobs) ==
    IF i >= Len(lines) THEN jobs
    ELSE LET title == Strip(At(lines, i))
             stop == Min({i + 15, Len(lines)})
         IN  IF /\ i + 1 < Len(lines)
                /\ Contains(At(lines, i + 1), "JobID:")
                /\ title # ""
                /\ Len(title) > 5
                /\ Len(title) < 200
             THEN applitrack_line_loop(lines, i + 1, url, district_name, term,
                      Append(jobs,
                          [title |-> title,
                           position_type |->
                               applitrack_field(lines, "Position Type:", i + 1, stop, ""),
                           location |->
                               applitrack_field(lines, "Location:", i + 1, stop, ""),
                           district |-> district_name,
                           url |-> url,
                           search_term |-> term,
                           source |-> "AppliTrack"]))
             ELSE applitrack_line_loop(lines, i + 1, url, district_name, term, jobs)

\* the loop over search_terms; site.searches[term] is what the portal does
\* when the term is searched: goto fails, the search box is missing, or
\* the body text (split into lines) is rendered
RECURSIVE applitrack_term_loop(_, _, _, _, _)
applitrack_term_loop(site, search_terms, url, district_name, jobs) ==
    IF search_terms = <<>> THEN Collected(jobs, FALSE)
    ELSE LET term == Head(search_terms)
             search == site.searches[term]
         IN  IF search.goto # "ok" THEN Collected(jobs, TRUE)
             ELSE IF ~search.box
             THEN applitrack_term_loop(site, Tail(search_terms), url, district_name, jobs)
             ELSE applitrack_term_loop(site, Tail(search_terms), url, district_name,
                      applitrack_line_loop(search.lines, 0, url, district_name, term, jobs))

\* the try block of scrape_applitrack
applitrack_collect(site, url, district_name) ==
    applitrack_term_loop(site, SOCIAL_STUDIES_SEARCH_TERMS, url, district_name, <<>>)

\* the deduplication of scrape_applitrack: key = job['title'].lower()
applitrack_dedup(jobs) ==
    dedup_loop(jobs, [i \in DOMAIN jobs |-> Lower(jobs[i].title)],
               [i \in DOMAIN jobs |-> TRUE], {}, <<>>)

\* re.match(r'(.+?)\s*\((\d+)\)$', text) on a stripped text: the category
\* before a final "(digits)"
CategoryOf(text) ==
    LET opens == {i \in Occurrences(text, "(") :
                     /\ i > 1
                     /\ i + 1 < Len(text)
                     /\ SubSeq(text, Len(text), Len(text)) = ")"
                     /\ \A k \in (i + 1)..(Len(text) - 1) :
                            Contains("0123456789", SubSeq(text, k, k))}
    IN  IF opens = {} THEN [matched |-> FALSE, category |-> ""]
        ELSE [matched |-> TRUE, category |-> RStrip(SubSeq(text, 1, Min(opens) - 1))]

\* the loop of scrape_applitrack_basic over the category links
RECURSIVE applitrack_category_loop(_, _, _, _)
applitrack_category_loop(category_links, url, district_name, jobs) ==
    IF category_links = <<>> THEN Collected(jobs, FALSE)
    ELSE LET link == Head(category_links)
             match == CategoryOf(link.text)
             category_url == urljoin(url, HrefOf(link))
         IN  IF match.matched
             THEN IF category_url.raised
                  THEN Collected(jobs, TRUE)
                  ELSE applitrack_category_loop(Tail(category_links), url, district_name,
                           Append(jobs,
                               [title |-> match.category,
                                category |-> match.category,
                                district |-> district_name,
                                url |-> category_url.url,
                                source |-> "AppliTrack"]))
             ELSE applitrack_category_loop(Tail(category_links), url, district_name, jobs)

\* soup.find_all('a', href=re.compile(r'Category='))
applitrack_category_links(site) ==
    SelectSeq(AnchorsOf(site.elements), LAMBDA a :
        a.href # Absent /\ Contains(a.href, "Category="))

\* the try block of scrape_applitrack_basic
applitrack_basic_collect(site, url, district_name) ==
    IF site.fetch # "ok" THEN Collected(<<>>, TRUE)
    ELSE applitrack_category_loop(applitrack_category_links(site), url,
                                  district_name, <<>>)

\* scrape_applitrack_basic returns jobs as collected, without deduplication
scrape_applitrack_basic(site, url, district_name) ==
    applitrack_basic_collect(site, url, district_name).jobs

\* scrape_applitrack: an exception in the try block returns []
scrape_applitrack(site, url, district_name) ==
    IF ~site.playwright THEN scrape_applitrack_basic(site, url, district_name)
    ELSE IF applitrack_collect(site, url, district_name).raised THEN <<>>
    ELSE applitrack_dedup(applitrack_collect(site, url, district_name).jobs)

(***************************************************************************)
(* scrapers/paeducator.py: scrape_paeducator                               *)
(***************************************************************************)

\* the title taken from a line that mentions the district: the part before
\* the last " - " when the part after it mentions the district
paeducator_title(line, search_term) ==
    LET cuts == Occurrences(line, " - ")
        last == Max(cuts)
    IN  IF /\ cuts # {}
           /\ Contains(Lower(line), Lower(search_term))
           /\ Contains(Lower(SubSeq(line, last + 3, Len(line))), Lower(search_term))
        THEN Strip(SubSeq(line, 1, last - 1))
        ELSE line

\* the loop over the lines of the rendered page text
RECURSIVE paeducator_line_loop(_, _, _, _, _)
paeducator_line_loop(lines, search_term, url, district_name, jobs) ==
    IF lines = <<>> THEN jobs
    ELSE LET line == Strip(Head(lines))
         IN  IF line # "" /\ Contains(Lower(line), Lower(search_term))
             THEN paeducator_line_loop(Tail(lines), search_term, url, district_name,
                      Append(jobs,
                          PortalJob(Truncate(paeducator_title(line, search_term), 150),
                                    district_name, url, "PAEducator")))
             ELSE paeducator_line_loop(Tail(lines), search_term, url, district_name, jobs)

\* the loop over the links to /job/ and /posting/; an exception inside the
\* loop body (a detached element, urljoin) skips that link
RECURSIVE paeducator_link_loop(_, _, _, _, _)
paeducator_link_loop(job_links, search_term, url, district_name, jobs) ==
    IF job_links = <<>> THEN jobs
    ELSE LET link == Head(job_links)
             text == Strip(link.text)
             job_url == IF link.href # "" THEN urljoin(url, link.href)
                        ELSE [raised |-> FALSE, url |-> url]
         IN  IF /\ ~link.detached
                /\ \/ Contains(Lower(text), Lower(search_term))
                   \/ Contains(Lower(link.parent_text), Lower(search_term))
                /\ text # ""
                /\ Len(text) > 2
                /\ Len(text) < 200
                /\ ~job_url.raised
             THEN paeducator_link_loop(Tail(job_links), search_term, url, district_name,
                      Append(jobs, PortalJob(text, district_name, job_url.url, "PAEducator")))
             ELSE paeducator_link_loop(Tail(job_links), search_term, url, district_name, jobs)

\* the try block of scrape_paeducator: the page text is parsed, then the
\* links are queried and added, whatever the text gave
paeducator_collect(site, url, district_name, search_term) ==
    IF site.goto # "ok" THEN Collected(<<>>, TRUE)
    ELSE LET from_text == IF site.body
                          THEN paeducator_line_loop(site.lines, search_term, url,
                                                    district_name, <<>>)
                          ELSE <<>>
         IN  IF site.query # "ok" THEN Collected(from_text, TRUE)
             ELSE Collected(paeducator_link_loop(site.job_links, search_term, url,
                                                 district_name, from_text), FALSE)

\* the deduplication of scrape_paeducator: key = job['title'].lower(), and
\* only titles longer than 3 characters are kept
paeducator_dedup(jobs) ==
    dedup_loop(jobs, [i \in DOMAIN jobs |-> Lower(jobs[i].title)],
               [i \in DOMAIN jobs |-> Len(jobs[i].title) > 3], {}, <<>>)

\* search_term = district_filter or district_name
scrape_paeducator(site, url, district_name, district_filter) ==
    LET search_term == IF district_filter # "" THEN district_filter ELSE district_name
    IN  IF ~site.playwright THEN <<>>
        ELSE paeducator_dedup(
                 paeducator_collect(site, url, district_name, search_term).jobs)

(***************************************************************************)
(* scrapers/schoolspring.py: scrape_schoolspring                           *)
(***************************************************************************)

\* any(re.search(p, title, re.I) for p in exclude_patterns)
schoolspring_excluded(title) ==
    LET lowered == Lower(title)
    IN  \/ \E prefix \in {"open in", "report", "terms", "privacy", "help", "contact",
                          "sign in", "sign up", "log in", "register", "google",
                          "maps", "http"} : StartsWith(lowered, prefix)
        \/ \E i \in Occurrences(lowered, "@") :
               \E tld \in {".org", ".com", ".edu", ".net"} :
                   Contains(SubSeq(lowered, i + 1, Len(lowered)), tld)

\* the loop over the job containers; an exception inside the body skips the container
RECURSIVE schoolspring_container_loop(_, _, _, _)
schoolspring_container_loop(job_containers, url, district_name, jobs) ==
    IF job_containers = <<>> THEN jobs
    ELSE LET container == Head(job_containers)
             title == Strip(container.title)
             href == IF container.link.present THEN HrefOf(container.link) ELSE ""
             job_url == IF href # "" THEN urljoin(url, href)
                        ELSE [raised |-> FALSE, url |-> url]
         IN  IF /\ ~container.detached
                /\ container.titled
                /\ title # ""
                /\ Len(title) > 3
                /\ Len(title) < 150
                /\ ~schoolspring_excluded(title)
                /\ ~job_url.raised
             THEN schoolspring_container_loop(Tail(job_containers), url, district_name,
                      Append(jobs, PortalJob(title, district_name, job_url.url,
                                             "SchoolSpring")))
             ELSE schoolspring_container_loop(Tail(job_containers), url, district_name, jobs)

\* the loop over the links to /job/, /posting/ and jobID
RECURSIVE schoolspring_link_loop(_, _, _, _)
schoolspring_link_loop(all_links, url, district_name, jobs) ==
    IF all_links = <<>> THEN jobs
    ELSE LET link == Head(all_links)
             text == Strip(link.text)
             job_url == urljoin(url, link.href)
         IN  IF /\ ~link.detached
                /\ text # ""
                /\ Len(text) > 3
                /\ Len(text) < 150
                /\ ~schoolspring_excluded(text)
                /\ ~job_url.raised
             THEN schoolspring_link_loop(Tail(all_links), url, district_name,
                      Append(jobs, PortalJob(text, district_name, job_url.url,
                                             "SchoolSpring")))
             ELSE schoolspring_link_loop(Tail(all_links), url, district_name, jobs)

schoolspring_words ==
    <<"Teacher", "Principal", "Counselor", "Secretary", "Aide", "Coach", "Driver",
      "Nurse", "Custodian", "Paraprofessional", "Substitute", "Assistant", "Director",
      "Coordinator", "Specialist", "Technician">>

\* re.findall(pattern, text, re.I) on one line of the text, from position pos:
\* the pattern has one group, so each match gives the job word as written on
\* the page; the match also consumes up to 50 characters that are no comma
RECURSIVE schoolspring_findall(_, _)
schoolspring_findall(line, pos) ==
    IF pos > Len(line) THEN <<>>
    ELSE LET hits == {k \in DOMAIN schoolspring_words :
                         /\ pos + Len(schoolspring_words[k]) - 1 <= Len(line)
                         /\ Lower(SubSeq(line, pos, pos + Len(schoolspring_words[k]) - 1))
                                = Lower(schoolspring_words[k])}
             after == pos + Len(schoolspring_words[Min(hits)])
             commas == {i \in Occurrences(line, ",") : i >= after}
         IN  IF hits = {} THEN schoolspring_findall(line, pos + 1)
             ELSE <<SubSeq(line, pos, after - 1)>> \o
                  schoolspring_findall(line, Min(commas \cup {after + 50, Len(line) + 1}))

\* the matches of all lines of the body text, in order
RECURSIVE schoolspring_matches(_)
schoolspring_matches(lines) ==
    IF lines = <<>> THEN <<>>
    ELSE schoolspring_findall(Head(lines), 1) \o schoolspring_matches(Tail(lines))

\* the loop over matches[:10]
RECURSIVE schoolspring_match_loop(_, _, _, _)
schoolspring_match_loop(matches, url, district_name, jobs) ==
    IF matches = <<>> THEN jobs
    ELSE LET title == Strip(Head(matches))
         IN  IF Len(title) > 5 /\ Len(title) < 100 /\ ~schoolspring_excluded(title)
             THEN schoolspring_match_loop(Tail(matches), url, district_name,
                      Append(jobs, PortalJob(title, district_name, url, "SchoolSpring")))
             ELSE schoolspring_match_loop(Tail(matches), url, district_name, jobs)

\* matches[:10]
schoolspring_first_matches(site) ==
    SubSeq(schoolspring_matches(site.lines), 1,
           Min({10, Len(schoolspring_matches(site.lines))}))

\* the try block of scrape_schoolspring
schoolspring_collect(site, url, district_name) ==
    IF site.goto # "ok" THEN Collected(<<>>, TRUE)
    ELSE LET first == schoolspring_container_loop(site.job_containers, url,
                                                  district_name, <<>>)
             second == schoolspring_link_loop(site.job_links, url, district_name, <<>>)
             third == schoolspring_match_loop(schoolspring_first_matches(site), url,
                                              district_name, <<>>)
         IN  IF first # <<>> THEN Collected(first, FALSE)
             ELSE IF site.query # "ok" THEN Collected(<<>>, TRUE)
             ELSE IF second # <<>> THEN Collected(second, FALSE)
             ELSE IF site.body THEN Collected(third, FALSE)
             ELSE Collected(<<>>, FALSE)

\* the deduplication of scrape_schoolspring: key = job['title'].lower()
schoolspring_dedup(jobs) ==
    dedup_loop(jobs, [i \in DOMAIN jobs |-> Lower(jobs[i].title)],
               [i \in DOMAIN jobs |-> TRUE], {}, <<>>)

scrape_schoolspring(site, url, district_name) ==
    IF ~site.playwright THEN <<>>
    ELSE schoolspring_dedup(schoolspring_collect(site, url, district_name).jobs)

(***************************************************************************)
(* Adapter harness: one adapter called on one portal page                  *)
(***************************************************************************)

\* the longest sequence of elements, lines or links a page of the harness holds
MaxElements == 2

\* the number of leading search terms whose AppliTrack result is chosen freely
NumSearched == 2

\* elements of a district website or a PowerSchool portal
ElementPool ==
    { Element("a", "", "", "History Teacher", Anchor("History Teacher", "/posting/1")),
      Element("a", "", "", "Civics Teacher", Anchor("Civics Teacher", "/posting/1")),
      Element("a", "", "", "History Teacher", Anchor("History Teacher", "/posting/2")),
      Element("a", "", "", "Apply", Anchor("Apply", "http://[posting")),
      Element("a", "", "", "Welcome", Anchor("Welcome", "/index.html")),
      Element("li", "", "", "Math TeacherGo", Anchor("Go", "/files/1.pdf")),
      Element("li", "", "", "Substitute Aide", NoLink),
      Element("p", "", "main-content", "Tutor needed", NoLink),
      Element("div", "job-title", "", "Geography", Anchor("Geography", "/view/7")),
      Element("li", "", "", "Economics", Anchor("Economics", "/position/9")) }

\* a page fetched with requests: the fetch fails, or the page has these elements
FetchedPages(portal) ==
    { [portal |-> portal, playwright |-> FALSE, fetch |-> "error", elements |-> <<>>] }
    \cup { [portal |-> portal, playwright |-> FALSE, fetch |-> "ok", elements |-> es] :
             es \in Lists(ElementPool, MaxElements) }

\* what an AppliTrack portal renders when one term is searched
SearchPool ==
    { [goto |-> "error", box |-> FALSE, lines |-> <<>>],
      [goto |-> "ok", box |-> FALSE, lines |-> <<>>],
      [goto |-> "ok", box |-> TRUE, lines |-> <<"No openings found">>],
      [goto |-> "ok", box |-> TRUE,
       lines |-> <<"High School History Teacher", "JobID: 101">>],
      [goto |-> "ok", box |-> TRUE,
       lines |-> <<"Openings", "  HIGH SCHOOL HISTORY TEACHER ", "JobID: 101",
                   "Position Type:", "", "  High School Teaching/Social Studies",
                   "Location:", "Example High School">>],
      [goto |-> "ok", box |-> TRUE,
       lines |-> <<"Civics Teacher", "JobID: 102", "Position Type:", "Teacher",
                   "Economics Teacher", "", "JobID: 103">>] }

\* the category links of an AppliTrack start page
CategoryPool ==
    { Element("a", "", "", "Teachers (3)",
              Anchor("Teachers (3)", "default.aspx?Category=Teachers")),
      Element("a", "", "", "Teachers  (12)",
              Anchor("Teachers  (12)", "default.aspx?Category=Teachers")),
      Element("a", "", "", "All Jobs",
              Anchor("All Jobs", "default.aspx?Category=All")) }

\* an AppliTrack portal rendered with Playwright: found[i] is what the search
\* for the i-th term renders, and every later term finds nothing
RenderedApplitrack(found) ==
    [portal |-> "AppliTrack", playwright |-> TRUE, fetch |-> "ok", elements |-> <<>>,
     searches |-> [t \in {SOCIAL_STUDIES_SEARCH_TERMS[i] :
                            i \in DOMAIN SOCIAL_STUDIES_SEARCH_TERMS} |->
                      IF \E i \in DOMAIN found : SOCIAL_STUDIES_SEARCH_TERMS[i] = t
                      THEN found[CHOOSE i \in DOMAIN found :
                                     SOCIAL_STUDIES_SEARCH_TERMS[i] = t]
                      ELSE [goto |-> "ok", box |-> TRUE,
                            lines |-> <<"No openings found">>]]]

ApplitrackPages ==
    { RenderedApplitrack(found) : found \in [1..NumSearched -> SearchPool] }
    \cup { [portal |-> "AppliTrack", playwright |-> FALSE, fetch |-> f, elements |-> es,
            searches |-> <<>>] :
             f \in {"ok", "error"}, es \in Lists(CategoryPool, MaxElements) }

\* lines of the text a PAEducator search renders
PAEducatorLines ==
    { "History Teacher - Example SD",
      "  Art - Example SD ",
      "Civics Teacher - Sample SD" }

\* links to postings on a PAEducator page
PAEducatorLinks ==
    { [text |-> "Art", href |-> "/job/5", parent_text |-> "Art Example SD",
       detached |-> FALSE],
      [text |-> "Geography Teacher", href |-> "/job/6", parent_text |-> "Example SD",
       detached |-> FALSE],
      [text |-> "History Teacher - Example SD", href |-> "/posting/7",
       parent_text |-> "", detached |-> TRUE] }

PAEducatorPages ==
    { [portal |-> "PAEducator", playwright |-> FALSE, goto |-> "ok", body |-> TRUE,
       lines |-> <<>>, query |-> "ok", job_links |-> <<>>],
      [portal |-> "PAEducator", playwright |-> TRUE, goto |-> "error", body |-> TRUE,
       lines |-> <<>>, query |-> "ok", job_links |-> <<>>] }
    \cup { [portal |-> "PAEducator", playwright |-> TRUE, goto |-> "ok", body |-> TRUE,
            lines |-> ls, query |-> q, job_links |-> ks] :
             ls \in Lists(PAEducatorLines, MaxElements),
             q \in {"ok", "error"},
             ks \in Lists(PAEducatorLinks, MaxElements) }

\* job containers of a SchoolSpring page
SchoolSpringContainers ==
    { [titled |-> TRUE, title |-> "History Teacher", link |-> Anchor("View", "/job/1"),
       detached |-> FALSE],
      [titled |-> TRUE, title |-> "history teacher", link |-> NoLink,
       detached |-> FALSE],
      [titled |-> TRUE, title |-> "Sign in to apply", link |-> NoLink,
       detached |-> FALSE] }

SchoolSpringLinks ==
    { [text |-> "Civics Teacher", href |-> "/job/2", detached |-> FALSE],
      [text |-> "jobs@example.org", href |-> "/posting/3", detached |-> FALSE] }

SchoolSpringLines ==
    { "Now hiring: Teacher, Social Studies and teacher aide",
      "Bus Driver" }

SchoolSpringPages ==
    { [portal |-> "SchoolSpring", playwright |-> FALSE, goto |-> "ok", query |-> "ok",
       body |-> TRUE, job_containers |-> <<>>, job_links |-> <<>>, lines |-> <<>>],
      [portal |-> "SchoolSpring", playwright |-> TRUE, goto |-> "error", query |-> "ok",
       body |-> TRUE, job_containers |-> <<>>, job_links |-> <<>>, lines |-> <<>>] }
    \cup { [portal |-> "SchoolSpring", playwright |-> TRUE, goto |-> "ok", query |-> q,
            body |-> TRUE, job_containers |-> cs, job_links |-> ks, lines |-> ls] :
             q \in {"ok", "error"},
             cs \in Lists(SchoolSpringContainers, MaxElements),
             ks \in Lists(SchoolSpringLinks, MaxElements),
             ls \in Lists(SchoolSpringLines, MaxElements) }

\* the pages each type of portal may serve
PagesOf(type) ==
    CASE type = "AppliTrack" -> ApplitrackPages
      [] type = "PowerSchool" -> FetchedPages("PowerSchool")
      [] type = "PAEducator" -> PAEducatorPages
      [] type = "SchoolSpring" -> SchoolSpringPages
      [] type = "Other" -> FetchedPages("Other")

\* one config.json entry per type of portal
AdapterSchools ==
    { [name |-> "Example SD", type |-> "AppliTrack", url |-> "http://a/jobs/default.aspx"],
      [name |-> "Example SD", type |-> "PowerSchool", url |-> "http://p/jobs"],
      [name |-> "Example SD", type |-> "PAEducator", url |-> "http://e/search"],
      [name |-> "Example School District", type |-> "PAEducator", url |-> "http://e/search",
       paeducator_filter |-> "Example SD"],
      [name |-> "Example SD", type |-> "SchoolSpring", url |-> "http://s/jobs"],
      [name |-> "Example SD", type |-> "Other", url |-> "http://o/jobs"] }

InitAdapters ==
    /\ pc = "page"
    /\ config \in {[schools |-> <<s>>] : s \in AdapterSchools}
    /\ page \in PagesOf(config.schools[1].type)
    /\ candidates = Collected(<<>>, FALSE)
    /\ all_jobs = <<>>
    /\ filtered_jobs = <<>>
    /\ previous_ids = {}
    /\ new_jobs = <<>>
    /\ district_jobs = <<>>
    /\ web = <<>>
    /\ db = <<>>
    /\ db_before = <<>>
    /\ sent = {}
    /\ unsent = {}
    /\ RunIdle
    /\ ClassifierIdle

\* the school entry the adapter is called for
TheSchool == config.schools[1]

\* school.get('paeducator_filter', name)
FilterOf(sch) ==
    IF "paeducator_filter" \in DOMAIN sch THEN sch.paeducator_filter ELSE sch.name

\* what a call of an adapter leaves alone
adapterFrame ==
    <<config, district_jobs, page, web, db, filtered_jobs, previous_ids, new_jobs, cache, school,
      results, loads, saves, prev_done, prev_keys, prev2_keys, job, verdict,
      db_before, ledger>>

\* scrape_applitrack(url, name)
ScrapeAppliTrack ==
    /\ pc = "page"
    /\ TheSchool.type = "AppliTrack"
    /\ candidates' = IF page.playwright
                     THEN applitrack_collect(page, TheSchool.url, TheSchool.name)
                     ELSE applitrack_basic_collect(page, TheSchool.url, TheSchool.name)
    /\ all_jobs' = scrape_applitrack(page, TheSchool.url, TheSchool.name)
    /\ pc' = "scraped"
    /\ UNCHANGED adapterFrame

\* scrape_powerschool(url, name)
ScrapePowerSchool ==
    /\ pc = "page"
    /\ TheSchool.type = "PowerSchool"
    /\ candidates' = powerschool_collect(page, TheSchool.url, TheSchool.name)
    /\ all_jobs' = scrape_powerschool(page, TheSchool.url, TheSchool.name)
    /\ pc' = "scraped"
    /\ UNCHANGED adapterFrame

\* scrape_paeducator(url, name, district_filter)
ScrapePAEducator ==
    /\ pc = "page"
    /\ TheSchool.type = "PAEducator"
    /\ candidates' = IF page.playwright
                     THEN paeducator_collect(page, TheSchool.url, TheSchool.name,
                                             FilterOf(TheSchool))
                     ELSE Collected(<<>>, FALSE)
    /\ all_jobs' = scrape_paeducator(page, TheSchool.url, TheSchool.name,
                                     FilterOf(TheSchool))
    /\ pc' = "scraped"
    /\ UNCHANGED adapterFrame

\* scrape_schoolspring(url, name)
ScrapeSchoolSpring ==
    /\ pc = "page"
    /\ TheSchool.type = "SchoolSpring"
    /\ candidates' = IF page.playwright
                     THEN schoolspring_collect(page, TheSchool.url, TheSchool.name)
                     ELSE Collected(<<>>, FALSE)
    /\ all_jobs' = scrape_schoolspring(page, TheSchool.url, TheSchool.name)
    /\ pc' = "scraped"
    /\ UNCHANGED adapterFrame

\* scrape_other(url, name)
ScrapeOther ==
    /\ pc = "page"
    /\ TheSchool.type = "Other"
    /\ candidates' = other_collect(page, TheSchool.url, TheSchool.name)
    /\ all_jobs' = scrape_other(page, TheSchool.url, TheSchool.name)
    /\ pc' = "scraped"
    /\ UNCHANGED adapterFrame

\* the adapter ends with a deduplication loop (scrape_applitrack_basic has none)
Deduplicates(sch, site) ==
    sch.type = "AppliTrack" => site.playwright

\* the deduplication loop of the adapter of a type of portal
adapter_dedup(type, jobs) ==
    CASE type = "AppliTrack" -> applitrack_dedup(jobs)
      [] type = "PowerSchool" -> powerschool_dedup(jobs)
      [] type = "PAEducator" -> paeducator_dedup(jobs)
      [] type = "SchoolSpring" -> schoolspring_dedup(jobs)
      [] type = "Other" -> other_dedup(jobs)

\* the adapter's deduplication loop is run once more, on what the adapter returned
DedupAgain ==
    /\ pc = "scraped"
    /\ Deduplicates(TheSchool, page)
    /\ all_jobs' = adapter_dedup(TheSchool.type, all_jobs)
    /\ pc' = "deduped"
    /\ UNCHANGED <<candidates, adapterFrame>>

NextAdapters ==
    \/ ScrapeAppliTrack
    \/ ScrapePowerSchool
    \/ ScrapePAEducator
    \/ ScrapeSchoolSpring
    \/ ScrapeOther
    \/ DedupAgain

SpecAdapters == InitAdapters /\ [][NextAdapters]_vars

(***************************************************************************)
(* Claims about the adapters (under SpecAdapters)                          *)
(***************************************************************************)

\* C12: when an adapter hits an exception while it processes a district, it
\* returns an empty result, not the candidates collected before the exception.
\* scrape_applitrack does; the other adapters only print the error and go on
\* to return what they had collected.
C12_ExceptionYieldsNoRecords ==
    (pc = "scraped" /\ candidates.raised) => all_jobs = <<>>

\* the dedup key the specification names for each type of adapter
ClaimedKey(type, j) ==
    IF type \in {"AppliTrack", "PAEducator", "SchoolSpring"}
    THEN <<Lower(j.title)>>
    ELSE <<j.title, j.url>>

RECURSIVE KeepAt(_, _, _)
\* the subsequence of jobs at the positions in keep, from position i on
KeepAt(jobs, keep, i) ==
    IF i > Len(jobs) THEN <<>>
    ELSE (IF i \in keep THEN <<jobs[i]>> ELSE <<>>) \o KeepAt(jobs, keep, i + 1)

\* C15: within the output of one adapter call no two records carry the same
\* dedup key (lower-cased title for AppliTrack, PAEducator and SchoolSpring,
\* (title, url) for PowerSchool and Other), and a candidate is dropped if and
\* only if an earlier candidate of the call has the same key.
C15_DroppedIffEarlierSameKey ==
    (pc = "scraped" /\ ~candidates.raised) =>
        /\ \A m, n \in DOMAIN all_jobs :
               m # n => ClaimedKey(TheSchool.type, all_jobs[m])
                            # ClaimedKey(TheSchool.type, all_jobs[n])
        /\ all_jobs =
               KeepAt(candidates.jobs,
                      {i \in DOMAIN candidates.jobs :
                          \A k \in 1..(i - 1) :
                              ClaimedKey(TheSchool.type, candidates.jobs[k])
                                  # ClaimedKey(TheSchool.type, candidates.jobs[i])},
                      1)

\* the key each adapter's deduplication loop uses
AdapterKey(type, j) ==
    CASE type \in {"AppliTrack", "PAEducator", "SchoolSpring"} -> <<Lower(j.title)>>
      [] type = "PowerSchool" -> <<j.url>>
      [] type = "Other" -> <<j.title, j.url>>

\* the positions of the first occurrence of each key
FirstOfEachKey(type, jobs) ==
    {i \in DOMAIN jobs :
        \A k \in 1..(i - 1) : AdapterKey(type, jobs[k]) # AdapterKey(type, jobs[i])}

\* the adapter's deduplication loop has run on the collected candidates
DedupRan ==
    /\ pc \in {"scraped", "deduped"}
    /\ Deduplicates(TheSchool, page)
    /\ ~(TheSchool.type = "AppliTrack" /\ candidates.raised)

C17_RequiredFieldsAndTitleLength ==
    pc = "scraped" =>
        \A i \in DOMAIN all_jobs :
            /\ {"title", "district", "url", "source"} \subseteq DOMAIN all_jobs[i]
            /\ all_jobs[i].title # ""
            /\ all_jobs[i].url # ""
            /\ all_jobs[i].source # ""
            /\ all_jobs[i].district = TheSchool.name
            /\ Len(all_jobs[i].title) >= 3
            /\ Len(all_jobs[i].title) <= 200

\* C18: in every record an adapter returns, each optional field is absent or
\* a non-empty string.
C18_OptionalFieldsAbsentOrNonEmpty ==
    pc = "scraped" =>
        \A i \in DOMAIN all_jobs :
            \A field \in {"position_type", "location", "category", "search_term"} :
                field \in DOMAIN all_jobs[i] => all_jobs[i][field] # ""

\* what each extraction strategy of the adapter yields on the page when it is
\* run on its own, in the adapter's priority order
Strategies(sch, site) ==
    CASE sch.type = "AppliTrack" ->
            IF site.playwright
            THEN <<applitrack_collect(site, sch.url, sch.name).jobs>>
            ELSE <<applitrack_basic_collect(site, sch.url, sch.name).jobs>>
      [] sch.type = "PowerSchool" ->
            <<powerschool_link_loop(powerschool_job_links(site), sch.url, sch.name,
                                    <<>>).jobs,
              powerschool_link_loop(powerschool_class_links(site), sch.url, sch.name,
                                    <<>>).jobs,
              powerschool_link_loop(powerschool_item_links(site), sch.url, sch.name,
                                    <<>>).jobs>>
      [] sch.type = "PAEducator" ->
            <<paeducator_line_loop(site.lines, FilterOf(sch), sch.url, sch.name, <<>>),
              paeducator_link_loop(site.job_links, FilterOf(sch), sch.url, sch.name,
                                   <<>>)>>
      [] sch.type = "SchoolSpring" ->
            <<schoolspring_container_loop(site.job_containers, sch.url, sch.name, <<>>),
              schoolspring_link_loop(site.job_links, sch.url, sch.name, <<>>),
              schoolspring_match_loop(schoolspring_first_matches(site), sch.url,
                                      sch.name, <<>>)>>
      [] sch.type = "Other" ->
            <<other_anchor_loop(other_links(site), sch.url, sch.name, <<>>).jobs,
              other_item_loop(other_items(site), TRUE, sch.url, sch.name, <<>>).jobs,
              other_content_loop(other_paragraphs(site), TRUE, sch.url, sch.name,
                                 <<>>).jobs>>

\* the candidates of the first strategy that yields any
FirstYield(strategies) ==
    IF \A s \in DOMAIN strategies : strategies[s] = <<>> THEN <<>>
    ELSE strategies[Min({s \in DOMAIN strategies : strategies[s] # <<>>})]

\* C19: an adapter stops at the first strategy that yields a candidate: every
\* record it returns is a candidate of that strategy, none comes from a later
\* strategy.
C19_OnlyFirstYieldingStrategy ==
    (pc = "scraped" /\ ~candidates.raised) =>
        \A i \in DOMAIN all_jobs :
            \E k \in DOMAIN FirstYield(Strategies(TheSchool, page)) :
                all_jobs[i] = FirstYield(Strategies(TheSchool, page))[k]

(***************************************************************************)
(* scraper.py: scrape_district and scrape_all_districts                    *)
(***************************************************************************)

\* the loop over school.get('urls', []) of a district of type Multiple; a
\* portal entry without type or url raises KeyError
RECURSIVE multiple_loop(_, _, _, _)
multiple_loop(web_pages, urls, name, jobs) ==
    IF urls = <<>> THEN Collected(jobs, FALSE)
    ELSE LET portal == Head(urls)
         IN  IF "type" \notin DOMAIN portal \/ "url" \notin DOMAIN portal
             THEN Collected(jobs, TRUE)
             ELSE IF portal.type = "AppliTrack"
             THEN multiple_loop(web_pages, Tail(urls), name,
                      jobs \o scrape_applitrack(web_pages[portal.url], portal.url, name))
             ELSE IF portal.type = "PowerSchool"
             THEN multiple_loop(web_pages, Tail(urls), name,
                      jobs \o scrape_powerschool(web_pages[portal.url], portal.url, name))
             ELSE multiple_loop(web_pages, Tail(urls), name, jobs)

\* scrape_district(school), where web_pages[url] is the page the url serves;
\* a missing key of the school entry raises KeyError, a type that is not
\* known returns the empty list
scrape_district_on(web_pages, sch) ==
    IF "name" \notin DOMAIN sch \/ "type" \notin DOMAIN sch THEN Collected(<<>>, TRUE)
    ELSE IF sch.type = "Multiple"
    THEN multiple_loop(web_pages, IF "urls" \in DOMAIN sch THEN sch.urls ELSE <<>>,
                       sch.name, <<>>)
    ELSE IF sch.type \notin {"AppliTrack", "PowerSchool", "PAEducator", "SchoolSpring",
                             "Other"}
    THEN Collected(<<>>, FALSE)
    ELSE IF "url" \notin DOMAIN sch THEN Collected(<<>>, TRUE)
    ELSE CASE sch.type = "AppliTrack" ->
                  Collected(scrape_applitrack(web_pages[sch.url], sch.url, sch.name), FALSE)
           [] sch.type = "PowerSchool" ->
                  Collected(scrape_powerschool(web_pages[sch.url], sch.url, sch.name), FALSE)
           [] sch.type = "PAEducator" ->
                  Collected(scrape_paeducator(web_pages[sch.url], sch.url, sch.name,
                                              FilterOf(sch)), FALSE)
           [] sch.type = "SchoolSpring" ->
                  Collected(scrape_schoolspring(web_pages[sch.url], sch.url, sch.name),
                            FALSE)
           [] sch.type = "Other" ->
                  Collected(scrape_other(web_pages[sch.url], sch.url, sch.name), FALSE)

\* the longest list of schools in a configuration of the harness
MaxSchools == 2

PortalUrls ==
    [AppliTrack |-> "http://a/jobs/default.aspx", PowerSchool |-> "http://p/jobs",
     PAEducator |-> "http://e/search", SchoolSpring |-> "http://s/jobs",
     Other |-> "http://o/jobs"]

\* entries of config.json: one district per type of portal, districts with
\* several portals, an entry without url, a portal without type, an unknown type
SchoolPool ==
    { [name |-> "Example SD", type |-> "AppliTrack", url |-> PortalUrls.AppliTrack],
      [name |-> "Sample SD", type |-> "PowerSchool", url |-> PortalUrls.PowerSchool],
      [name |-> "Example School District", type |-> "PAEducator",
       url |-> PortalUrls.PAEducator, paeducator_filter |-> "Example SD"],
      [name |-> "Example SD", type |-> "SchoolSpring", url |-> PortalUrls.SchoolSpring],
      [name |-> "Third SD", type |-> "Other", url |-> PortalUrls.Other],
      [name |-> "Multi SD", type |-> "Multiple",
       urls |-> << [type |-> "AppliTrack", url |-> PortalUrls.AppliTrack],
                   [type |-> "PowerSchool", url |-> PortalUrls.PowerSchool] >>],
      [name |-> "Multi SD", type |-> "Multiple",
       urls |-> << [type |-> "PowerSchool", url |-> PortalUrls.PowerSchool],
                   [type |-> "Other", url |-> PortalUrls.Other] >>],
      [name |-> "Multi SD", type |-> "Multiple",
       urls |-> << [type |-> "PowerSchool", url |-> PortalUrls.PowerSchool],
                   [url |-> PortalUrls.Other] >>],
      [name |-> "Broken SD", type |-> "AppliTrack"],
      [name |-> "Late SD", type |-> "Frontline", url |-> PortalUrls.AppliTrack] }

\* what the portals may serve during a run: each one its postings, or a failure
WebPool ==
    { [u \in {PortalUrls[t] : t \in DOMAIN PortalUrls} |->
          IF u = PortalUrls.AppliTrack
          THEN IF a THEN RenderedApplitrack(
                             <<[goto |-> "ok", box |-> TRUE,
                                lines |-> <<"High School History Teacher", "JobID: 101">>]>>)
                    ELSE RenderedApplitrack(<<[goto |-> "error", box |-> FALSE,
                                               lines |-> <<>>]>>)
          ELSE IF u = PortalUrls.PowerSchool
          THEN [portal |-> "PowerSchool", playwright |-> FALSE,
                fetch |-> IF p THEN "ok" ELSE "error",
                elements |-> << Element("a", "", "", "Civics Teacher",
                                        Anchor("Civics Teacher", "/posting/1")) >>]
          ELSE IF u = PortalUrls.Other
          THEN [portal |-> "Other", playwright |-> FALSE,
                fetch |-> IF o THEN "ok" ELSE "error",
                elements |-> << Element("a", "", "", "History Teacher",
                                        Anchor("History Teacher", "/posting/1")),
                                Element("a", "", "", "Economics Teacher",
                                        Anchor("Economics Teacher", "/posting/2")) >>]
          ELSE IF u = PortalUrls.PAEducator
          THEN [portal |-> "PAEducator", playwright |-> TRUE, goto |-> "ok", body |-> TRUE,
                lines |-> <<"Geography Teacher - Example SD">>, query |-> "ok",
                job_links |-> <<>>]
          ELSE [portal |-> "SchoolSpring", playwright |-> TRUE, goto |-> "ok",
                query |-> "ok", body |-> TRUE,
                job_containers |-> << [titled |-> TRUE, title |-> "Government Teacher",
                                       link |-> Anchor("View", "/job/1"),
                                       detached |-> FALSE] >>,
                job_links |-> <<>>, lines |-> <<>>]] :
        a \in BOOLEAN, p \in BOOLEAN, o \in BOOLEAN }

InitScrape ==
    /\ pc = "loop"
    /\ config \in {[schools |-> schools] : schools \in Lists(SchoolPool, MaxSchools)}
    /\ web \in WebPool
    /\ school = 1
    /\ all_jobs = <<>>
    /\ district_jobs = <<>>
    /\ filtered_jobs = <<>>
    /\ previous_ids = {}
    /\ new_jobs = <<>>
    /\ page = NoPage
    /\ candidates = <<>>
    /\ db = <<>>
    /\ db_before = <<>>
    /\ sent = {}
    /\ unsent = {}
    /\ cache = FileAbsent
    /\ results = NotNotified
    /\ loads = 0
    /\ saves = 0
    /\ prev_done = FALSE
    /\ prev_keys = {}
    /\ prev2_keys = {}
    /\ ClassifierIdle

\* what the loop of scrape_all_districts leaves alone
scrapeFrame ==
    <<config, web, page, candidates, db, filtered_jobs, previous_ids, new_jobs, cache,
      results, loads, saves, prev_done, prev_keys, prev2_keys, job, verdict,
      db_before, ledger>>

\* the mutant: a record that all_jobs already holds is not added again
VisitDistrictOnce ==
    /\ pc = "loop"
    /\ school <= Len(config.schools)
    /\ ~scrape_district_on(web, config.schools[school]).raised
    /\ district_jobs' = scrape_district_on(web, config.schools[school]).jobs
    /\ all_jobs' = all_jobs \o SelectSeq(district_jobs',
                                         LAMBDA j : \A i \in DOMAIN all_jobs : all_jobs[i] # j)
    /\ school' = school + 1
    /\ UNCHANGED <<pc, scrapeFrame>>

\* one pass of the loop: jobs = scrape_district(school); all_jobs.extend(jobs)
VisitDistrict ==
    /\ pc = "loop"
    /\ school <= Len(config.schools)
    /\ ~scrape_district_on(web, config.schools[school]).raised
    /\ district_jobs' = scrape_district_on(web, config.schools[school]).jobs
    /\ all_jobs' = all_jobs \o district_jobs'
    /\ school' = school + 1
    /\ UNCHANGED <<pc, scrapeFrame>>

\* scrape_district raises: nothing in scrape_all_districts catches it, the
\* loop ends and the exception leaves the function
DistrictRaises ==
    /\ pc = "loop"
    /\ school <= Len(config.schools)
    /\ scrape_district_on(web, config.schools[school]).raised
    /\ pc' = "raised"
    /\ UNCHANGED <<school, all_jobs, district_jobs, scrapeFrame>>

\* return all_jobs
ReturnAllJobs ==
    /\ pc = "loop"
    /\ school > Len(config.schools)
    /\ pc' = "returned"
    /\ UNCHANGED <<school, all_jobs, district_jobs, scrapeFrame>>

NextScrape ==
    \/ VisitDistrict
    \/ DistrictRaises
    \/ ReturnAllJobs

SpecScrape == InitScrape /\ [][NextScrape]_vars

(***************************************************************************)
(* Claims about scrape_district and scrape_all_districts (under SpecScrape)*)
(***************************************************************************)

RECURSIVE ConcatDistricts(_, _, _, _)
\* the results of the districts from position i on, one after the other; a
\* district whose scraping raises contributes nothing when skip is set
ConcatDistricts(web_pages, schools, i, skip) ==
    IF i > Len(schools) THEN <<>>
    ELSE (IF skip /\ scrape_district_on(web_pages, schools[i]).raised THEN <<>>
          ELSE scrape_district_on(web_pages, schools[i]).jobs)
         \o ConcatDistricts(web_pages, schools, i + 1, skip)

RECURSIVE SumLengths(_, _, _)
SumLengths(web_pages, schools, i) ==
    IF i > Len(schools) THEN 0
    ELSE Len(scrape_district_on(web_pages, schools[i]).jobs)
         + SumLengths(web_pages, schools, i + 1)

\* C11: a failure while scraping one district never aborts the run:
\* scrape_all_districts goes on to every later district and returns the
\* records of all the other districts.
C11_RaisingDistrictNeverAborts ==
    pc \in {"returned", "raised"} =>
        /\ pc = "returned"
        /\ school > Len(config.schools)
        /\ all_jobs = ConcatDistricts(web, config.schools, 1, TRUE)

\* C13: scrape_all_districts returns the per-district record lists one after
\* the other in configuration order, each in its own order, with no record
\* dropped as a duplicate of another district's: its length is the sum of the
\* per-district lengths.
C13_ConcatenationInConfigOrder ==
    pc = "returned" =>
        /\ all_jobs = ConcatDistricts(web, config.schools, 1, FALSE)
        /\ Len(all_jobs) = SumLengths(web, config.schools, 1)

\* two districts were scraped, both returned records, and the result holds
\* the same record twice
C13_Witness ==
    /\ pc = "returned"
    /\ Len(config.schools) = 2
    /\ \A i \in 1..2 : scrape_district_on(web, config.schools[i]).jobs # <<>>
    /\ \E i, k \in DOMAIN all_jobs : i < k /\ all_jobs[i] = all_jobs[k]

\* what the adapter of a type of portal returns for a url
adapter_result(web_pages, type, url, name) ==
    CASE type = "AppliTrack" -> scrape_applitrack(web_pages[url], url, name)
      [] type = "PowerSchool" -> scrape_powerschool(web_pages[url], url, name)
      [] type = "PAEducator" -> scrape_paeducator(web_pages[url], url, name, name)
      [] type = "SchoolSpring" -> scrape_schoolspring(web_pages[url], url, name)
      [] type = "Other" -> scrape_other(web_pages[url], url, name)

RECURSIVE ConcatPortals(_, _, _)
ConcatPortals(web_pages, urls, name) ==
    IF urls = <<>> THEN <<>>
    ELSE adapter_result(web_pages, Head(urls).type, Head(urls).url, name)
         \o ConcatPortals(web_pages, Tail(urls), name)

\* C14: for a district of type Multiple scrape_district invokes the adapter of
\* every listed portal, whatever its type, and returns their results one
\* after the other in the order the portals are listed.
C14_MultipleInvokesEveryPortal ==
    (pc \in {"loop", "returned"} /\ school > 1
        /\ config.schools[school - 1].type = "Multiple") =>
        district_jobs = ConcatPortals(web, config.schools[school - 1].urls,
                                      config.schools[school - 1].name)

(***************************************************************************)
(* run_automated_cloud.py: run_scraper with the Supabase table jobs        *)
(*                                                                         *)
(* db maps the (district, title) of each stored row to its columns         *)
(* notified and is_active.                                                 *)
(***************************************************************************)

\* the unique key (district, title) of the table jobs
RowKey(j) == <<j.district, j.title>>

\* the mutant: every POST is answered 201, so stored rows that are not
\* notified are returned as well
RECURSIVE upsert_loop_always_created(_, _, _)
upsert_loop_always_created(jobs, table, found) ==
    IF jobs = <<>> THEN [db |-> table, new_jobs |-> found]
    ELSE LET j == Head(jobs)
             key == <<j.district, j.title>>
             row == IF key \notin DOMAIN table
                    THEN [notified |-> FALSE, is_active |-> TRUE]
                    ELSE [table[key] EXCEPT !.is_active = TRUE]
             stored == [k \in DOMAIN table \cup {key} |-> IF k = key THEN row ELSE table[k]]
             with_id == [f \in DOMAIN j \cup {"id"} |-> IF f = "id" THEN key ELSE j[f]]
         IN  IF ~row.notified
             THEN upsert_loop_always_created(Tail(jobs), stored, Append(found, with_id))
             ELSE upsert_loop_always_created(Tail(jobs), stored, found)

\* upsert_jobs: the loop over jobs; each POST inserts the row (201, and the
\* job is returned with the row's id if the row is not notified) or merges it
\* into the stored row (200); either way the row is active afterwards
RECURSIVE upsert_loop(_, _, _)
upsert_loop(jobs, table, found) ==
    IF jobs = <<>> THEN [db |-> table, new_jobs |-> found]
    ELSE LET j == Head(jobs)
             key == RowKey(j)
             inserted == key \notin DOMAIN table
             row == IF inserted THEN [notified |-> FALSE, is_active |-> TRUE]
                    ELSE [table[key] EXCEPT !.is_active = TRUE]
             stored == [k \in DOMAIN table \cup {key} |-> IF k = key THEN row ELSE table[k]]
             with_id == [f \in DOMAIN j \cup {"id"} |->
                            IF f = "id" THEN key ELSE j[f]]
         IN  IF inserted /\ ~row.notified
             THEN upsert_loop(Tail(jobs), stored, Append(found, with_id))
             ELSE upsert_loop(Tail(jobs), stored, found)

upsert_jobs(jobs, table) == upsert_loop(jobs, table, <<>>)

\* mark_missing_jobs_inactive(current_job_keys)
mark_missing_jobs_inactive(current_job_keys, table) ==
    [k \in DOMAIN table |->
        IF table[k].is_active /\ missing_job_key([district |-> k[1], title |-> k[2]])
                                     \notin current_job_keys
        THEN [table[k] EXCEPT !.is_active = FALSE]
        ELSE table[k]]

\* mark_jobs_notified(new_job_ids)
mark_jobs_notified(job_ids, table) ==
    [k \in DOMAIN table |->
        IF k \in job_ids THEN [table[k] EXCEPT !.notified = TRUE] ELSE table[k]]

\* the positions of the cloud runner
CloudPcs ==
    {"cloud_start", "cloud_scrape", "cloud_upsert", "cloud_mark_inactive",
     "cloud_status_email", "cloud_done", "cloud_failed", "cloud_exit"}

\* the table jobs before the first run
InitialTables ==
    { <<>>,
      [k \in {<<"Example SD", "High School History Teacher">>} |->
          [notified |-> TRUE, is_active |-> TRUE]],
      [k \in {<<"Example SD", "High School History Teacher">>} |->
          [notified |-> FALSE, is_active |-> FALSE]] }

InitCloud ==
    /\ pc = "cloud_start"
    /\ db \in InitialTables
    /\ cache = FileAbsent
    /\ school = 1
    /\ all_jobs = <<>>
    /\ filtered_jobs = <<>>
    /\ previous_ids = {}
    /\ new_jobs = <<>>
    /\ results = NotNotified
    /\ loads = 0
    /\ saves = 0
    /\ prev_done = FALSE
    /\ prev_keys = {}
    /\ prev2_keys = {}
    /\ config = [schools |-> <<>>]
    /\ district_jobs = <<>>
    /\ web = <<>>
    /\ page = NoPage
    /\ candidates = <<>>
    /\ db_before = <<>>
    /\ sent = {}
    /\ unsent = {}
    /\ ClassifierIdle

\* what the cloud runner never touches
cloudFrame ==
    <<cache, school, previous_ids, loads, saves, prev_done, prev_keys, prev2_keys,
      job, verdict, config, district_jobs, web, page, candidates, ledger>>

\* the workflow starts run_scraper; get_env_config finds the Supabase variables
CloudStart ==
    /\ pc \in {"cloud_start", "cloud_done", "cloud_failed", "cloud_exit"}
    /\ pc' = "cloud_scrape"
    /\ all_jobs' = <<>>
    /\ filtered_jobs' = <<>>
    /\ new_jobs' = <<>>
    /\ results' = NotNotified
    /\ UNCHANGED <<db, db_before, cloudFrame>>

\* get_env_config: a required variable is missing, sys.exit(1)
CloudEnvMissing ==
    /\ pc \in {"cloud_start", "cloud_done", "cloud_failed", "cloud_exit"}
    /\ pc' = "cloud_exit"
    /\ all_jobs' = <<>>
    /\ filtered_jobs' = <<>>
    /\ new_jobs' = <<>>
    /\ results' = NotNotified
    /\ UNCHANGED <<db, db_before, cloudFrame>>

\* all_jobs = scrape_all_districts(...); filtered_jobs = filter_jobs(all_jobs, True)
CloudScrape(jobs) ==
    /\ pc = "cloud_scrape"
    /\ all_jobs' = jobs
    /\ filtered_jobs' = filter_jobs(jobs, TRUE)
    /\ pc' = "cloud_upsert"
    /\ UNCHANGED <<db, db_before, new_jobs, results, cloudFrame>>

\* new_jobs = db.upsert_jobs(filtered_jobs)
CloudUpsert ==
    /\ pc = "cloud_upsert"
    /\ db' = upsert_jobs(filtered_jobs, db).db
    /\ db_before' = db
    /\ new_jobs' = upsert_jobs(filtered_jobs, db).new_jobs
    /\ pc' = "cloud_mark_inactive"
    /\ UNCHANGED <<all_jobs, filtered_jobs, results, cloudFrame>>

\* a request to Supabase fails: raise_for_status raises, the except clause of
\* run_scraper records the failure and raises again
CloudRequestFails ==
    /\ pc \in {"cloud_upsert", "cloud_mark_inactive"}
    /\ pc' = "cloud_failed"
    /\ UNCHANGED <<db, db_before, all_jobs, filtered_jobs, new_jobs, results, cloudFrame>>

\* db.mark_missing_jobs_inactive(current_job_keys)
CloudMarkInactive ==
    /\ pc = "cloud_mark_inactive"
    /\ db' = mark_missing_jobs_inactive(
                 {current_job_key(filtered_jobs[i]) : i \in DOMAIN filtered_jobs}, db)
    /\ pc' = "cloud_status_email"
    /\ UNCHANGED <<db_before, all_jobs, filtered_jobs, new_jobs, results, cloudFrame>>

\* the mutant: the status email is only sent when there are new jobs
CloudStatusEmailIfNew(email_sent) ==
    /\ pc = "cloud_status_email"
    /\ results' = IF new_jobs # <<>>
                  THEN [called |-> TRUE, email |-> email_sent, push |-> FALSE]
                  ELSE NotNotified
    /\ db' = IF email_sent /\ new_jobs # <<>>
             THEN mark_jobs_notified({new_jobs[i].id : i \in DOMAIN new_jobs}, db)
             ELSE db
    /\ pc' = "cloud_done"
    /\ UNCHANGED <<db_before, all_jobs, filtered_jobs, new_jobs, cloudFrame>>

\* email_sent = send_status_email(len(filtered_jobs), len(new_jobs), new_jobs, config),
\* called whether or not new_jobs is empty; it answers False when the email
\* settings are incomplete or the delivery fails.  If the email was sent the
\* new jobs are marked notified; the run then completes.
CloudStatusEmail(email_sent) ==
    /\ pc = "cloud_status_email"
    /\ results' = [called |-> TRUE, email |-> email_sent, push |-> FALSE]
    /\ db' = IF email_sent /\ new_jobs # <<>>
             THEN mark_jobs_notified({new_jobs[i].id : i \in DOMAIN new_jobs}, db)
             ELSE db
    /\ pc' = "cloud_done"
    /\ UNCHANGED <<db_before, all_jobs, filtered_jobs, new_jobs, cloudFrame>>

NextCloud ==
    \/ CloudStart
    \/ CloudEnvMissing
    \/ \E jobs \in Lists(UNION {Postings(Config.schools[i]) : i \in 1..NumSchools},
                         MaxJobsPerDistrict) : CloudScrape(jobs)
    \/ CloudUpsert
    \/ CloudRequestFails
    \/ CloudMarkInactive
    \/ \E email_sent \in BOOLEAN : CloudStatusEmail(email_sent)

(***************************************************************************)
(* The automated runs: the local runner or the cloud runner                *)
(***************************************************************************)

InitAutomated ==
    \/ Init
    \/ InitCloud

NextAutomated ==
    \/ Next
    \/ NextCloud

SpecAutomated == InitAutomated /\ [][NextAutomated]_vars

\* C20 as stated: in an automated run, local or cloud, an email or push
\* message is sent only if the run found at least one new posting.
C20_NotificationOnlyIfNewJobs ==
    (results.email \/ results.push) => new_jobs # <<>>

\* C20, amended: the local runner calls send_notifications, and so sends an
\* email or a push message, only if the run found a new posting; the cloud
\* runner sends no push message and calls send_status_email in every run
\* that completes, with or without new postings.
C20_LocalOnlyIfNewJobsCloudAlways ==
    /\ pc \notin CloudPcs =>
           ((results.called \/ results.email \/ results.push) => new_jobs # <<>>)
    /\ pc \in CloudPcs => ~results.push
    /\ pc = "cloud_done" => results.called

\* a cloud run that found postings, none of them new, has sent its status email
C20_Witness ==
    /\ pc = "cloud_done"
    /\ filtered_jobs # <<>>
    /\ new_jobs = <<>>
    /\ results.email

(***************************************************************************)
(* Claims about upsert_jobs (under SpecAutomated)                          *)
(***************************************************************************)

\* a record upsert_jobs returned, without the id of its row
WithoutId(j) == [f \in DOMAIN j \ {"id"} |-> j[f]]

\* the records of jobs whose (district, title) was no row of table, each pair
\* once, in the order of jobs
NotYetStored(jobs, table) ==
    KeepAt(jobs,
           {i \in DOMAIN jobs :
               /\ RowKey(jobs[i]) \notin DOMAIN table
               /\ \A k \in 1..(i - 1) : RowKey(jobs[k]) # RowKey(jobs[i])},
           1)

\* C21: upsert_jobs(jobs) returns exactly the records of jobs whose
\* (district, title) pair was not stored in the table jobs before the call,
\* each such pair once and in input order, none whose pair was stored, and
\* every record of jobs ends up stored and active.
C21_UpsertReturnsNewlyInserted ==
    pc = "cloud_mark_inactive" =>
        /\ [i \in DOMAIN new_jobs |-> WithoutId(new_jobs[i])]
               = NotYetStored(filtered_jobs, db_before)
        /\ \A i \in DOMAIN new_jobs : RowKey(new_jobs[i]) \notin DOMAIN db_before
        /\ \A i \in DOMAIN filtered_jobs :
               /\ RowKey(filtered_jobs[i]) \in DOMAIN db
               /\ db[RowKey(filtered_jobs[i])].is_active

\* upsert_jobs was called with two postings: one had a row, inactive and not
\* notified, and is not returned; the other had none and is returned
C21_Witness ==
    /\ pc = "cloud_mark_inactive"
    /\ Len(filtered_jobs) = 2
    /\ Len(new_jobs) = 1
    /\ \E i \in DOMAIN filtered_jobs :
           /\ RowKey(filtered_jobs[i]) \in DOMAIN db_before
           /\ ~db_before[RowKey(filtered_jobs[i])].is_active
           /\ ~db_before[RowKey(filtered_jobs[i])].notified
    /\ RowKey(new_jobs[1]) \notin DOMAIN db_before

(***************************************************************************)
(* Claims about the list-item strategy of scrape_other (under              *)
(* SpecAdapters)                                                           *)
(***************************************************************************)

\* the candidate the list-item heuristic is to give for a list item: title
\* and url of its inner anchor if it has one, else its text and the page url
ListItemCandidate(li, url, district_name) ==
    IF li.link.present
    THEN PortalJob(li.link.text, district_name, urljoin(url, HrefOf(li.link)).url,
                   "District Website")
    ELSE PortalJob(li.text, district_name, url, "District Website")

\* the anchor heuristic ran to its end on the page and gave no candidate
AnchorHeuristicEmpty(site, url, district_name) ==
    /\ site.fetch = "ok"
    /\ ~other_anchor_loop(other_links(site), url, district_name, <<>>).raised
    /\ other_anchor_loop(other_links(site), url, district_name, <<>>).jobs = <<>>

\* the list items of the page whose text matches a job-title pattern (and
\* whose inner anchor, if any, has a text and an href that urljoin accepts)
MatchingItems(site, url) ==
    {i \in DOMAIN site.elements :
        /\ site.elements[i].tag = "li"
        /\ AnyKeywordIn(job_title_patterns, Lower(site.elements[i].text))
        /\ site.elements[i].link.present =>
               /\ site.elements[i].link.text # ""
               /\ ~urljoin(url, HrefOf(site.elements[i].link)).raised}

\* C22: whenever the anchor heuristic of scrape_other yields no candidate and
\* the page has a list item whose text matches a job-title pattern,
\* scrape_other returns a candidate for that list item (title and url of its
\* inner anchor, or its raw text and the page url), also on a page that has
\* no anchor at all.
C22_ListItemFallback ==
    (/\ pc = "scraped"
     /\ TheSchool.type = "Other"
     /\ AnchorHeuristicEmpty(page, TheSchool.url, TheSchool.name)) =>
        \A i \in MatchingItems(page, TheSchool.url) :
            \E k \in DOMAIN all_jobs :
                all_jobs[k] = ListItemCandidate(page.elements[i], TheSchool.url,
                                                TheSchool.name)

(***************************************************************************)
(* The rendered-text strategy of scrape_applitrack on one listing page     *)
(***************************************************************************)

\* the most blank lines between a title and its "JobID:" line
MaxGap == 2

\* the most lines between a "JobID:" line and the "Position Type:" label
MaxPad == 14

\* the most blank lines between a label and its value
MaxBlanks == 2

\* n lines that all equal line
Repeated(line, n) == [i \in 1..n |-> line]

\* the body text of a search result: a listing, and possibly a second one
ListingLines(gap, pad, blanks, second) ==
    <<"Openings", "Civics Teacher">> \o Repeated("", gap) \o <<"JobID: 102">>
        \o Repeated("Apply online", pad)
        \o <<"Position Type:">> \o Repeated(" ", blanks) \o <<" Teacher ">>
        \o <<"Location:", "Example Middle School">>
        \o (IF second
            THEN <<"Economics Teacher", "JobID: 103", "Position Type:", "Aide",
                   "Location:", "Example High School">>
            ELSE <<>>)

ListingPool ==
    { ListingLines(gap, pad, blanks, second) :
          gap \in 0..MaxGap, pad \in 0..MaxPad, blanks \in 0..MaxBlanks,
          second \in BOOLEAN }

\* scrape_applitrack is called on a portal whose first search renders a listing page
InitListing ==
    /\ pc = "page"
    /\ config = [schools |-> << [name |-> "Example SD", type |-> "AppliTrack",
                                 url |-> "http://x/onlineapp"] >>]
    /\ page \in { RenderedApplitrack(<< [goto |-> "ok", box |-> TRUE, lines |-> lines] >>) :
                      lines \in ListingPool }
    /\ candidates = Collected(<<>>, FALSE)
    /\ all_jobs = <<>>
    /\ filtered_jobs = <<>>
    /\ previous_ids = {}
    /\ new_jobs = <<>>
    /\ district_jobs = <<>>
    /\ web = <<>>
    /\ db = <<>>
    /\ db_before = <<>>
    /\ sent = {}
    /\ unsent = {}
    /\ RunIdle
    /\ ClassifierIdle

NextListing ==
    \/ ScrapeAppliTrack
    \/ DedupAgain

SpecListing == InitListing /\ [][NextListing]_vars

\* the lines of the page the first search rendered
RenderedLines == page.searches[SOCIAL_STUDIES_SEARCH_TERMS[1]].lines

\* the positions of the lines that hold the marker
MarkerLines(lines) == {m \in DOMAIN lines : Contains(lines[m], "JobID:")}

\* the positions before m of the lines that are not blank
NonBlankBefore(lines, m) == {p \in 1..(m - 1) : Strip(lines[p]) # ""}

\* the positions after j of the lines that are not blank
NonBlankAfter(lines, j) == {k \in (j + 1)..Len(lines) : Strip(lines[k]) # ""}

\* C23: every "JobID:" line that is preceded by a non-empty line of
\* acceptable length yields a candidate whose title is the nearest preceding
\* non-empty line, also when blank lines lie between them; no candidate has
\* an empty title.
C23_TitleIsNearestNonEmptyLine ==
    pc = "scraped" =>
        /\ \A m \in MarkerLines(RenderedLines) :
               LET before == NonBlankBefore(RenderedLines, m)
                   title == Strip(RenderedLines[Max(before)])
               IN  (before # {} /\ Len(title) > 5 /\ Len(title) < 200) =>
                       \E k \in DOMAIN all_jobs : all_jobs[k].title = title
        /\ \A k \in DOMAIN all_jobs : all_jobs[k].title # ""

\* min(i + 15, len(lines)): no line further than 15 from the marker is read
WindowLimit == 15

\* range(i + 1, min(i + 15, len(lines))): the 14 lines from the marker on
ScannedLines == 14

\* the values that the labels in the lines m .. m + span are followed by: for
\* each label line, the next line that is not blank
WindowValues(lines, m, span, label) ==
    { Strip(lines[Min(NonBlankAfter(lines, j))]) :
          j \in {w \in m..Min({m + span, Len(lines)}) :
                    /\ Contains(lines[w], label)
                    /\ NonBlankAfter(lines, w) # {}} }

\* the marker line of a candidate: the line after its title
MarkerOf(lines, title) ==
    {m \in MarkerLines(lines) : m > 1 /\ Strip(lines[m - 1]) = title}

\* a field of a candidate whose marker is line m: if a label lies in the lines
\* scanned after the marker the field is the next non-empty line after such a
\* label, and a field that is set is the next non-empty line after a label
\* within 15 lines of the marker
FieldFromWindow(lines, m, label, field) ==
    /\ WindowValues(lines, m, ScannedLines - 1, label) # {} =>
           field \in WindowValues(lines, m, ScannedLines - 1, label)
    /\ field # "" => field \in WindowValues(lines, m, WindowLimit, label)

\* C24: the position_type and location of a candidate are the next non-empty
\* line after the "Position Type:" / "Location:" label found in the window of
\* at most 15 lines after the candidate's marker; nothing outside the window
\* supplies a field.
C24_FieldsFromLabelsInWindow ==
    pc = "scraped" =>
        \A k \in DOMAIN all_jobs :
            \A m \in MarkerOf(RenderedLines, all_jobs[k].title) :
                /\ FieldFromWindow(RenderedLines, m, "Position Type:",
                                   all_jobs[k].position_type)
                /\ FieldFromWindow(RenderedLines, m, "Location:", all_jobs[k].location)

(***************************************************************************)
(* run_automated.py: run_scraper with the history of its notifications     *)
(***************************************************************************)

\* the state file before the first run: none, or one that holds a key
LedgerCaches == {FileAbsent, FileJson(CacheDocument(<<KeyOfExample>>, 1))}

InitLedger ==
    /\ Init
    /\ cache \in LedgerCaches

\* the postings of the districts that pass the filter: the ones whose
\* notifications the history follows
OpenPostings ==
    {p \in UNION {Postings(Config.schools[i]) : i \in 1..NumSchools} :
        filter_jobs(<<p>>, TRUE) # <<>>}

\* the mutant: the state file is rolled back when no channel delivered
NotifyLoggedRollback(email, push) ==
    /\ pc = "notify"
    /\ new_jobs # <<>>
    /\ results' = [called |-> TRUE, email |-> email, push |-> push]
    /\ sent' = IF email \/ push THEN sent \cup KeysOf(new_jobs) ELSE sent
    /\ unsent' = IF email \/ push THEN unsent \ KeysOf(new_jobs)
                 ELSE unsent \cup KeysOf(new_jobs)
    /\ cache' = IF email \/ push THEN cache
                ELSE save_current_jobs(
                         SelectSeq(filtered_jobs, LAMBDA j : ~InNewJobs(j)), cache)
    /\ pc' = "write_results"
    /\ UNCHANGED <<school, all_jobs, filtered_jobs, previous_ids, new_jobs,
                   loads, saves, history, job, verdict, portalVars>>

\* Notify, with the keys of the postings it listed recorded as delivered or not
NotifyLogged(email, push) ==
    /\ pc = "notify"
    /\ new_jobs # <<>>
    /\ results' = [called |-> TRUE, email |-> email, push |-> push]
    /\ sent' = IF email \/ push THEN sent \cup KeysOf(new_jobs) ELSE sent
    /\ unsent' = IF email \/ push THEN unsent \ KeysOf(new_jobs)
                 ELSE unsent \cup KeysOf(new_jobs)
    /\ pc' = "write_results"
    /\ UNCHANGED <<cache, school, all_jobs, filtered_jobs, previous_ids, new_jobs,
                   loads, saves, history, job, verdict, portalVars>>

\* NotifyRaises, with the keys of the postings recorded as not delivered
NotifyRaisesLogged ==
    /\ pc = "notify"
    /\ new_jobs # <<>>
    /\ results' = [called |-> TRUE, email |-> FALSE, push |-> FALSE]
    /\ unsent' = unsent \cup KeysOf(new_jobs)
    /\ pc' = "aborted"
    /\ UNCHANGED <<cache, school, all_jobs, filtered_jobs, previous_ids, new_jobs,
                   loads, saves, history, job, verdict, portalVars, sent>>

NextLedger ==
    \/ StartRun
    \/ LoadSettings
    \/ LoadSettingsMissing
    \/ LoadConfig
    \/ LoadConfigMissing
    \/ \E jobs \in Lists(OpenPostings, MaxJobsPerDistrict) : ScrapeDistrict(jobs)
    \/ ScrapeRaises
    \/ FilterJobs
    \/ FilterRaises
    \/ LoadPrevious
    \/ Diff
    \/ Save
    \/ \E email \in BOOLEAN, push \in BOOLEAN : NotifyLogged(email, push)
    \/ NotifyRaisesLogged
    \/ NoNotify
    \/ WriteResults

SpecLedger == InitLedger /\ [][NextLedger]_vars

\* the positions of run_scraper after get_new_jobs has returned
AfterDiff == {"save", "notify", "write_results", "done"}

\* C25: the run state is saved before a notification is attempted and is not
\* rolled back afterwards: once send_notifications has been called, delivered
\* or not, the keys of the new postings are in the state file, and a posting
\* whose notification was never delivered is not reported new, and its
\* notification not retried, as long as the runs keep finding it.
C25_SavedBeforeNotifyNeverRetried ==
    /\ results.called =>
           /\ saves = 1
           /\ KeysOf(new_jobs) \subseteq load_previous_jobs(cache).ids
    /\ pc \in AfterDiff =>
           \A k \in unsent \ sent :
               (k \in prev_keys /\ k \in KeysOf(filtered_jobs)) =>
                   k \notin KeysOf(new_jobs)
    /\ (/\ pc = "done"
        /\ KeysOf(filtered_jobs) = prev_keys
        /\ \E k \in unsent \ sent : k \in prev_keys) => ~results.called

\* a run has completed that found the same postings as the run before, one of
\* them never delivered: send_notifications was not called
C25_Witness ==
    /\ pc = "done"
    /\ KeysOf(filtered_jobs) = prev_keys
    /\ \E k \in unsent \ sent : k \in KeysOf(filtered_jobs)
    /\ ~results.called

\* C26: a failing adapter leaves the keys of its district out of the saved
\* state, so a posting that was notified before and is still open is in the
\* new-jobs list of the run in which the adapter works again, and that run
\* calls send_notifications for it a second time.
C26_ReportedAgainAfterFailure ==
    /\ pc \in {"notify", "write_results", "done"} =>
           load_previous_jobs(cache).ids = KeysOf(filtered_jobs)
    /\ pc \in AfterDiff =>
           \A k \in KeysOf(filtered_jobs) :
               (k \in sent /\ k \notin previous_ids) => k \in KeysOf(new_jobs)
    /\ pc \in {"write_results", "done"} => (new_jobs # <<>> => results.called)

\* a posting that a delivered notification listed, and that the run before
\* did not find, has been notified again by a run that has completed
C26_Witness ==
    /\ pc = "done"
    /\ prev_done
    /\ \E k \in KeysOf(new_jobs) : k \in prev2_keys /\ k \notin prev_keys /\ k \in sent
    /\ results.email

(***************************************************************************)
(* C27: saving and loading the run state                                   *)
(***************************************************************************)

\* C27: what load_previous_jobs reads from the file save_current_jobs(J)
\* leaves is exactly the set of keys of J, so get_new_jobs finds nothing new
\* in J against it; once the run has saved, the file holds that state; and a
\* run whose filtered result has the keys of the run before reports no new
\* job and does not call send_notifications
C27_SaveLoadRoundTrip ==
    LET reloaded == load_previous_jobs(save_current_jobs(filtered_jobs, cache))
    IN  /\ ~reloaded.raised
        /\ reloaded.ids = KeysOf(filtered_jobs)
        /\ get_new_jobs(filtered_jobs, reloaded.ids) = <<>>
        /\ pc \in {"notify", "write_results", "done"}
              => load_previous_jobs(cache).ids = KeysOf(filtered_jobs)
        /\ (pc \in AfterDiff /\ prev_done /\ KeysOf(filtered_jobs) = prev_keys)
              => new_jobs = <<>>
        /\ (pc \in {"write_results", "done"} /\ prev_done
                /\ KeysOf(filtered_jobs) = prev_keys)
              => ~results.called

\* a second run that found the same two postings as the first one has ended
\* without a notification
C27_Witness ==
    /\ pc = "done"
    /\ prev_done
    /\ Cardinality(KeysOf(filtered_jobs)) = 2
    /\ KeysOf(filtered_jobs) = prev_keys
    /\ new_jobs = <<>>
    /\ ~results.called

(***************************************************************************)
(* Key harness: the jobs one run saves, the jobs the next run compares     *)
(***************************************************************************)

\* the longest list of jobs of either run
MaxKeyJobs == 2

\* districts and titles with and without the separator character
KeyJobPool ==
    { ListingJob("A", "B|C", "http://k/1"),
      ListingJob("A|B", "C", "http://k/2"),
      ListingJob("A", "BC", "http://k/3"),
      ListingJob("AB", "C", "http://k/4"),
      ListingJob("A", "B", "http://k/5") }

InitKeys ==
    /\ pc = "input"
    /\ all_jobs \in Lists(KeyJobPool, MaxKeyJobs)
    /\ filtered_jobs \in Lists(KeyJobPool, MaxKeyJobs)
    /\ previous_ids = {}
    /\ new_jobs = <<>>
    /\ RunIdle
    /\ SiteIdle
    /\ ClassifierIdle

\* one run: save_current_jobs(filtered_jobs), its filtered jobs held in all_jobs
SaveSeen ==
    /\ pc = "input"
    /\ cache' = save_current_jobs(all_jobs, cache)
    /\ saves' = saves + 1
    /\ pc' = "saved"
    /\ UNCHANGED <<runLocals, loads, history, job, verdict, siteVars>>

\* the next run: previous_ids = load_previous_jobs();
\* new_jobs = get_new_jobs(filtered_jobs, previous_ids)
LoadAndDiff ==
    /\ pc = "saved"
    /\ ~load_previous_jobs(cache).raised
    /\ previous_ids' = load_previous_jobs(cache).ids
    /\ loads' = loads + 1
    /\ new_jobs' = get_new_jobs(filtered_jobs, previous_ids')
    /\ pc' = "diffed"
    /\ UNCHANGED <<cache, school, all_jobs, filtered_jobs, results, saves, history,
                   job, verdict, siteVars>>

NextKeys ==
    \/ SaveSeen
    \/ LoadAndDiff

SpecKeys == InitKeys /\ [][NextKeys]_vars

\* the district name holds no separator character
NoBar(j) == ~Contains(j["district"], "|")

SamePair(a, b) == a["district"] = b["district"] /\ a["title"] = b["title"]

\* the jobs of both runs
BothRuns == {all_jobs[i] : i \in DOMAIN all_jobs}
                \cup {filtered_jobs[i] : i \in DOMAIN filtered_jobs}

\* C29: when no district name contains "|", two jobs that differ in district
\* or in title never have the same key, where it is saved and where it is
\* compared, so a job is left out of the new jobs only if the run before
\* saved a job with its district and its title.
C29_KeyInjectiveWithoutBarInDistrict ==
    (\A j \in BothRuns : NoBar(j)) =>
        /\ \A a \in BothRuns : \A b \in BothRuns :
               ~SamePair(a, b) =>
                   /\ save_job_id(a) # save_job_id(b)
                   /\ diff_job_id(a) # diff_job_id(b)
                   /\ save_job_id(a) # diff_job_id(b)
        /\ pc = "diffed" =>
               \A i \in DOMAIN filtered_jobs :
                   (\A k \in DOMAIN new_jobs : new_jobs[k] # filtered_jobs[i]) =>
                       \E s \in DOMAIN all_jobs : SamePair(all_jobs[s], filtered_jobs[i])

\* the run before saved a job whose title holds the separator; of the two jobs
\* compared with it, the one with that district and title is left out and the
\* other, whose title is a prefix of it, is new
C29_Witness ==
    /\ pc = "diffed"
    /\ \A j \in BothRuns : NoBar(j)
    /\ \E s \in DOMAIN all_jobs : Contains(all_jobs[s]["title"], "|")
    /\ Len(filtered_jobs) = 2
    /\ Len(new_jobs) = 1
    /\ \E s \in DOMAIN all_jobs : SamePair(all_jobs[s], filtered_jobs[1])
    /\ ~ \E s \in DOMAIN all_jobs : SamePair(all_jobs[s], new_jobs[1])

(***************************************************************************)
(* Pipeline harness: scrape_all_districts on portals that list a title     *)
(* more than once, then filter_jobs and get_new_jobs as run_scraper calls   *)
(* them                                                                    *)
(***************************************************************************)

\* districts of each kind the runner scrapes without a browser, one whose
\* two portals list the same opening, and an entry without url
PipelineSchools ==
    { [name |-> "Sample SD", type |-> "PowerSchool", url |-> PortalUrls.PowerSchool],
      [name |-> "Third SD", type |-> "Other", url |-> PortalUrls.Other],
      [name |-> "Multi SD", type |-> "Multiple",
       urls |-> << [type |-> "AppliTrack", url |-> PortalUrls.AppliTrack],
                   [type |-> "PowerSchool", url |-> PortalUrls.PowerSchool] >>],
      [name |-> "Broken SD", type |-> "AppliTrack"] }

\* what the portals serve: an opening listed once, or once per building
PipelineWebPool ==
    { [u \in {PortalUrls[t] : t \in DOMAIN PortalUrls} |->
          IF u = PortalUrls.AppliTrack
          THEN RenderedApplitrack(
                   <<[goto |-> "ok", box |-> TRUE,
                      lines |-> IF a THEN <<"Civics Teacher", "JobID: 101">> ELSE <<>>]>>)
          ELSE IF u = PortalUrls.PowerSchool
          THEN [portal |-> "PowerSchool", playwright |-> FALSE, fetch |-> "ok",
                elements |->
                    << Element("a", "", "", "Civics Teacher",
                               Anchor("Civics Teacher", "/posting/1")) >>
                    \o IF p THEN << Element("a", "", "", "Civics Teacher",
                                            Anchor("Civics Teacher", "/posting/2")) >>
                            ELSE <<>>]
          ELSE IF u = PortalUrls.Other
          THEN [portal |-> "Other", playwright |-> FALSE, fetch |-> "ok",
                elements |->
                    << Element("a", "", "", "History Teacher",
                               Anchor("History Teacher", "/posting/1")) >>
                    \o IF o THEN << Element("a", "", "", "History Teacher",
                                            Anchor("History Teacher", "/posting/2")) >>
                            ELSE <<>>]
          ELSE IF u = PortalUrls.PAEducator
          THEN [portal |-> "PAEducator", playwright |-> TRUE, goto |-> "ok", body |-> TRUE,
                lines |-> <<>>, query |-> "ok", job_links |-> <<>>]
          ELSE [portal |-> "SchoolSpring", playwright |-> TRUE, goto |-> "ok",
                query |-> "ok", body |-> TRUE, job_containers |-> <<>>,
                job_links |-> <<>>, lines |-> <<>>]] :
        a \in BOOLEAN, p \in BOOLEAN, o \in BOOLEAN }

\* the state file of the run before: nothing, or one of the openings
PipelinePrevious == {{}, {"Sample SD|Civics Teacher"}, {"Third SD|History Teacher"}}

InitPipeline ==
    /\ pc = "loop"
    /\ config \in {[schools |-> schools] : schools \in Lists(PipelineSchools, MaxSchools)}
    /\ web \in PipelineWebPool
    /\ previous_ids \in PipelinePrevious
    /\ school = 1
    /\ all_jobs = <<>>
    /\ district_jobs = <<>>
    /\ filtered_jobs = <<>>
    /\ new_jobs = <<>>
    /\ page = NoPage
    /\ candidates = <<>>
    /\ db = <<>>
    /\ db_before = <<>>
    /\ sent = {}
    /\ unsent = {}
    /\ cache = FileAbsent
    /\ results = NotNotified
    /\ loads = 0
    /\ saves = 0
    /\ prev_done = FALSE
    /\ prev_keys = {}
    /\ prev2_keys = {}
    /\ ClassifierIdle

\* filtered_jobs = filter_jobs(all_jobs, social_studies_only=True);
\* new_jobs = get_new_jobs(filtered_jobs, previous_ids)
FilterAndDiff ==
    /\ pc = "returned"
    /\ filtered_jobs' = filter_jobs(all_jobs, TRUE)
    /\ new_jobs' = get_new_jobs(filtered_jobs', previous_ids)
    /\ pc' = "diffed"
    /\ UNCHANGED <<cache, school, all_jobs, previous_ids, results, loads, saves,
                   history, job, verdict, siteVars>>

NextPipeline ==
    \/ VisitDistrict
    \/ DistrictRaises
    \/ ReturnAllJobs
    \/ FilterAndDiff

SpecPipeline == InitPipeline /\ [][NextPipeline]_vars

\* C28: the new jobs a local run hands to notification never hold two records
\* with the same key district|title, whatever the configuration and the
\* previous state.
C28_NewJobsHaveDistinctKeys ==
    pc = "diffed" =>
        \A i \in DOMAIN new_jobs : \A k \in DOMAIN new_jobs :
            i # k => IdentityKey(new_jobs[i]) # IdentityKey(new_jobs[k])

(***************************************************************************)
(* C30: the state file during a run that ends early                        *)
(***************************************************************************)

\* the positions of run_scraper before load_previous_jobs is called
BeforeLoad == {"load_settings", "load_config", "scrape"}

\* C30: the state file changes only in the step that saves, which comes after
\* scraping, filtering and the loading of the previous state; a run that ends
\* because settings.json or config.json is missing, or because scraping or
\* filtering raises, has not written the file and has not called
\* send_notifications.
C30_StateWrittenOnlyAfterScrapeFilterLoad ==
    [][/\ cache' # cache =>
              (pc = "save" /\ school > NumSchools /\ loads = 1 /\ saves = 0)
       /\ (pc \in BeforeLoad /\ pc' = "aborted") =>
              (cache' = cache /\ saves' = 0 /\ results' = NotNotified)]_vars

\* a run after a completed one has ended while scraping, after a district
\* returned postings: the state file of the run before is still there
C30_Witness ==
    /\ pc = "aborted"
    /\ prev_done
    /\ school <= NumSchools
    /\ all_jobs # <<>>
    /\ saves = 0
    /\ loads = 0
    /\ results = NotNotified
    /\ load_previous_jobs(cache).ids = prev_keys
    /\ prev_keys # KeysOf(filter_jobs(all_jobs, TRUE))

====
